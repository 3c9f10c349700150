------------------------------ MODULE RouteFiles ------------------------------
(* Where Targeting keeps its routes: one file per route (targets0.toml,         *)
(* targets1.toml, ...), a backup of each written every five minutes, a copy of  *)
(* each kept before its names are rewritten, the file of an older version, and  *)
(* the setting that names the active route.  A file is written by deleting it,  *)
(* creating it at its new size and filling it, so that a power cut finds it     *)
(* missing or unreadable, and a full card refuses it.  The directory is listed   *)
(* anew at each start, switch, reload and new route, and a listing may fail.    *)
(*                                                                              *)
(* A route is a value; what a run changes in it (times) and what the user       *)
(* changes in it (steps) both make another one.                                 *)
EXTENDS Integers, FiniteSets

CONSTANTS
    Routes,         \* what a list of targets may be
    NoTargets,      \* the empty list
    MaxRoutes,      \* bound: route files are named 0 .. MaxRoutes - 1
    Absent,         \* no such file
    Unreadable,     \* a file that does not parse, or parses to no array of targets
    Never,          \* nothing written yet
    Faults          \* a part of {"Crash", "Refused", "Unlisted"}

Names == 0 .. MaxRoutes - 1
Readable == [route : Routes, canonical : BOOLEAN]
Contents == Readable \cup {Absent, Unreadable}

ASSUME RouteFilesAssumption ==
    /\ NoTargets \in Routes
    /\ MaxRoutes \in Nat \ {0}
    /\ Absent # Unreadable
    /\ Absent \notin Readable /\ Unreadable \notin Readable
    /\ Never \notin Routes
    /\ Never \notin Names /\ Absent \notin Names /\ Unreadable \notin Names
    /\ Faults \subseteq {"Crash", "Refused", "Unlisted"}

VARIABLES
    files,       \* Targets/targetsN.toml
    backups,     \* Targets/targetsN.backup.toml
    originals,   \* Targets/targetsN.pre-autoname.backup.toml
    legacy,      \* targets.toml of an older version
    setting,     \* targetingSettings.toml
    session,     \* the module's variables while the game runs
    ghost,       \* what the properties remember of the session
    spoiled      \* history: names whose copy is not one of the file that has the name

vars == <<files, backups, originals, legacy, setting, session, ghost, spoiled>>

\* The variables Targeting keeps between frames; "on" says that the game runs.
Session == [on : BOOLEAN, current : Names, routeFiles : SUBSET Names,
            targets : Routes, lastSaved : Routes \cup {Never},
            lastSetting : Names \cup {Never}, createdEmpty : BOOLEAN,
            running : BOOLEAN]

\* loaded: memory holds what the current file held or was meant to hold.
\* edited: the user changed the route since the last load was tried.
\* refused: some route file could not be written in this session.
\* blind: some listing of the directory failed in this session.
Ghost == [loaded : BOOLEAN, edited : BOOLEAN, refused : BOOLEAN, blind : BOOLEAN]

Off == [on |-> FALSE, current |-> 0, routeFiles |-> {}, targets |-> NoTargets,
        lastSaved |-> Never, lastSetting |-> Never, createdEmpty |-> FALSE,
        running |-> FALSE]
NoGhost == [loaded |-> FALSE, edited |-> FALSE, refused |-> FALSE, blind |-> FALSE]

-------------------------------------------------------------------------------
(* Writing a file. *)

\* SerializeTargets: what a route is written as.
SerializeTargets(route) == [route |-> route, canonical |-> TRUE]

\* WriteTargetsFile.  Refused: Preallocate cannot create the file, having deleted
\* one of another size or not, or the created file cannot be opened.
WriteTargetsFile(old, contents) ==
    {[left |-> contents, ok |-> TRUE]} \cup
    IF "Refused" \in Faults
    THEN {[left |-> x, ok |-> FALSE] : x \in {old, Absent, Unreadable}}
    ELSE {}

\* What a power cut leaves of a file that is being written.
CutShort == {Absent, Unreadable}

\* SaveTargetsToFile: a refused save leaves what counts as saved as it was.
SaveTargetsToFile(s, old) ==
    {[left |-> w.left, ok |-> w.ok,
      session |-> IF w.ok THEN [s EXCEPT !.lastSaved = s.targets] ELSE s] :
         w \in WriteTargetsFile(old, SerializeTargets(s.targets))}

\* SaveTargetsIfChanged: nothing when memory is as last saved.
SaveTargetsIfChanged(s, old) ==
    IF s.lastSaved = s.targets
    THEN {[left |-> old, ok |-> TRUE, session |-> s]}
    ELSE SaveTargetsToFile(s, old)

\* Mutant: a new route is written only if it differs from what was saved last.
SaveNewIfChanged(s, old) == SaveTargetsIfChanged(s, old)

\* CreateNewRoute clears lastSavedTargets first: an empty route may have been saved
\* last, under another name.
SaveNewRoute(s, old) == SaveTargetsToFile([s EXCEPT !.lastSaved = Never], old)

\* The route files there are, backups and copies aside.
RouteFilesOnCard(f) == {n \in Names : f[n] # Absent}

\* RescanRouteFiles: what exists, or nothing when the directory cannot be opened,
\* counted or read.
RescanRouteFiles(f) ==
    {RouteFilesOnCard(f)} \cup IF "Unlisted" \in Faults THEN {{}} ELSE {}

\* SaveRouteSettingIfChanged.
SaveRouteSettingIfChanged(s, old) ==
    IF s.lastSetting = s.current
    THEN {[left |-> old, saved |-> s.lastSetting]}
    ELSE {[left |-> w.left, saved |-> IF w.ok THEN s.current ELSE s.lastSetting] :
              w \in WriteTargetsFile(old, s.current)}

-------------------------------------------------------------------------------
(* Loading a file. *)

\* What a loaded file makes of the session: the route stops and is replaced, and a
\* file with old names still has to be saved.
Loaded(s, contents) ==
    [s EXCEPT !.targets = contents.route, !.running = FALSE,
              !.lastSaved = IF contents.canonical THEN contents.route ELSE Never]

\* Mutant: names are rewritten without a copy.
NoMigrationBackup(contents, old) == {[left |-> old, ok |-> TRUE]}

\* The copy made before target names are rewritten, unless there is one; that it
\* could not be made is only logged.
MigrationBackup(contents, old) ==
    IF contents.canonical \/ old # Absent
    THEN {[left |-> old, ok |-> TRUE]}
    ELSE WriteTargetsFile(old, contents)

\* LoadTargetsFromFile for the current route: the file, the copy, the setting and
\* the session it leaves.  A file that does not load changes nothing.
LoadTargetsFromFile(s, contents, original, oldSetting) ==
    IF contents \notin Readable
    THEN {[left |-> contents, original |-> original, setting |-> oldSetting,
           session |-> s, loaded |-> FALSE, copied |-> TRUE, kept |-> TRUE]}
    ELSE {[left |-> w.left, original |-> o.left, setting |-> p.left,
           session |-> [w.session EXCEPT !.lastSetting = p.saved],
           loaded |-> TRUE, copied |-> o.ok, kept |-> w.ok] :
              o \in MigrationBackup(contents, original),
              p \in SaveRouteSettingIfChanged(s, oldSetting),
              w \in SaveTargetsIfChanged(Loaded(s, contents), contents)}

-------------------------------------------------------------------------------
(* Starting and ending a session. *)

\* The first half of InitializeRouteFiles: when the scan found no route file, the old
\* targets.toml is copied to targets0.toml, or an empty route is written there.
FirstRouteFile(scanned) ==
    IF scanned # {}
    THEN {[left |-> files[0], ok |-> TRUE]}
    ELSE WriteTargetsFile(files[0], IF legacy # Absent THEN legacy
                                    ELSE SerializeTargets(NoTargets))

\* Only then is the directory scanned again.
ListedAtStart(scanned, f) == IF scanned # {} THEN {scanned} ELSE RescanRouteFiles(f)

\* The route to open: the one the setting names if it is there, else the first.
ActiveRoute(scanned, listed) ==
    LET wanted == IF setting \in Names /\ scanned # {} THEN setting ELSE 0
    IN  IF wanted \in listed THEN wanted
        ELSE IF listed = {} THEN 0
        ELSE CHOOSE n \in listed : \A k \in listed : n <= k

\* The names whose copy is not one of their file any more, once targets0.toml was
\* written at the start.
SpoiledByFirst(f) == spoiled \cup {n \in {0} : f[n] # files[n] /\ originals[n] \notin {Absent, f[n]}}

\* A copy of the file n that was refused may have left anything.
SpoiledByCopy(n, copied) == IF copied THEN {} ELSE {n}

\* Initialize: what it could not load stays untouched, and whatever it has loaded
\* counts as saved.
Initialize ==
    /\ ~session.on
    /\ \E scanned \in RescanRouteFiles(files) :
       \E first \in FirstRouteFile(scanned) :
       LET f == [files EXCEPT ![0] = first.left]
       IN  \E listed \in ListedAtStart(scanned, f) :
           LET n == ActiveRoute(scanned, listed)
               s == [Off EXCEPT !.on = TRUE, !.current = n, !.routeFiles = listed]
           IN  \E p \in SaveRouteSettingIfChanged(s, setting) :
               \E l \in LoadTargetsFromFile([s EXCEPT !.lastSetting = p.saved],
                                            f[n], originals[n], p.left) :
                   /\ files' = [f EXCEPT ![n] = l.left]
                   /\ originals' = [originals EXCEPT ![n] = l.original]
                   /\ setting' = l.setting
                   /\ session' = [l.session EXCEPT !.lastSaved = l.session.targets]
                   /\ ghost' = [loaded |-> l.loaded, edited |-> FALSE,
                                refused |-> ~(first.ok /\ l.copied /\ l.kept),
                                blind |-> \/ scanned # RouteFilesOnCard(files)
                                          \/ listed # RouteFilesOnCard(f)]
                   /\ spoiled' = SpoiledByFirst(f) \cup SpoiledByCopy(n, l.copied)
    /\ UNCHANGED <<backups, legacy>>

\* The game is closed, or loses its power, between two writes.
Quit ==
    /\ session.on
    /\ session' = Off /\ ghost' = NoGhost
    /\ UNCHANGED <<files, backups, originals, legacy, setting, spoiled>>

-------------------------------------------------------------------------------
(* The game's frames. *)

\* Targeting::Update: what changed in memory is saved.
Update ==
    /\ session.on
    /\ \E w \in SaveTargetsIfChanged(session, files[session.current]) :
           /\ files' = [files EXCEPT ![session.current] = w.left]
           /\ session' = w.session
           /\ ghost' = [ghost EXCEPT !.refused = @ \/ ~w.ok]
    /\ UNCHANGED <<backups, originals, legacy, setting, spoiled>>

\* UpdateTargetsBackup, when five minutes have passed.
UpdateTargetsBackup ==
    /\ session.on
    /\ \E w \in WriteTargetsFile(backups[session.current],
                                 SerializeTargets(session.targets)) :
           backups' = [backups EXCEPT ![session.current] = w.left]
    /\ UNCHANGED <<files, originals, legacy, setting, session, ghost, spoiled>>

\* StartRoute, and a run that ends without a change.
RouteStartsOrEnds ==
    /\ session.on /\ session.targets # NoTargets
    /\ session' = [session EXCEPT !.running = ~@]
    /\ UNCHANGED <<files, backups, originals, legacy, setting, ghost, spoiled>>

\* CompleteTargetSplit and TryCompleteScriptTimer write times into the route.
RouteTakesTimes ==
    /\ session.on /\ session.running
    /\ \E route \in Routes \ {NoTargets} :
           session' = [session EXCEPT !.targets = route]
    /\ UNCHANGED <<files, backups, originals, legacy, setting, ghost, spoiled>>

-------------------------------------------------------------------------------
(* The window.  Whatever it did, MenuWindow ends with SaveTargetsIfChanged. *)

\* An edit of the steps.
EditRoute ==
    /\ session.on
    /\ \E route \in Routes :
       \E w \in SaveTargetsIfChanged([session EXCEPT !.targets = route],
                                     files[session.current]) :
           /\ files' = [files EXCEPT ![session.current] = w.left]
           /\ session' = w.session
           /\ ghost' = [ghost EXCEPT !.edited = TRUE, !.refused = @ \/ ~w.ok]
    /\ UNCHANGED <<backups, originals, legacy, setting, spoiled>>

\* Whether the route on screen was created in this session and is still empty.
DropsRoute == session.createdEmpty /\ session.targets = NoTargets

\* What becomes of the route that is switched away from: deleted, or saved if it
\* changed.  After a failed save the old route is still to be saved.
LeaveRoute ==
    LET old == files[session.current]
    IN  IF DropsRoute
        THEN {[left |-> x, ok |-> TRUE, session |-> session] :
                  x \in IF "Refused" \in Faults THEN {Absent, old} ELSE {Absent}}
        ELSE SaveTargetsIfChanged(session, old)

\* Another route is chosen in the combo box.
SwitchRoute ==
    /\ session.on
    /\ \E n \in session.routeFiles \ {session.current}, left \in LeaveRoute :
       LET f == [files EXCEPT ![session.current] = left.left]
           s == [left.session EXCEPT !.current = n, !.createdEmpty = FALSE]
       IN  \E l \in LoadTargetsFromFile(s, f[n], originals[n], setting) :
           LET g == [f EXCEPT ![n] = l.left]
           IN  \E listed \in RescanRouteFiles(g), w \in SaveTargetsIfChanged(l.session, l.left) :
                   /\ files' = [f EXCEPT ![n] = w.left]
                   /\ originals' = [originals EXCEPT ![n] = l.original]
                   /\ setting' = l.setting
                   /\ session' = [w.session EXCEPT !.routeFiles = listed]
                   /\ ghost' = [loaded |-> l.loaded, edited |-> FALSE,
                                refused |-> ghost.refused
                                            \/ ~(left.ok /\ l.copied /\ l.kept /\ w.ok),
                                blind |-> ghost.blind \/ listed # RouteFilesOnCard(g)]
                   /\ spoiled' = spoiled \cup SpoiledByCopy(n, l.copied)
    /\ UNCHANGED <<backups, legacy>>

\* Reload.
ReloadRoute ==
    /\ session.on
    /\ \E listed \in RescanRouteFiles(files) :
       LET n == session.current
           s == [session EXCEPT !.routeFiles = listed]
       IN  \E l \in LoadTargetsFromFile(s, files[n], originals[n], setting) :
           \E w \in SaveTargetsIfChanged(l.session, l.left) :
               /\ files' = [files EXCEPT ![n] = w.left]
               /\ originals' = [originals EXCEPT ![n] = l.original]
               /\ setting' = l.setting
               /\ session' = w.session
               /\ ghost' = [loaded |-> l.loaded, edited |-> FALSE,
                            refused |-> ghost.refused \/ ~(l.copied /\ l.kept /\ w.ok),
                            blind |-> ghost.blind \/ listed # RouteFilesOnCard(files)]
               /\ spoiled' = spoiled \cup SpoiledByCopy(n, l.copied)
    /\ UNCHANGED <<backups, legacy>>

\* The name CreateNewRoute takes: one above the highest listed.
NewName == IF session.routeFiles = {} THEN 0
           ELSE 1 + CHOOSE n \in session.routeFiles : \A k \in session.routeFiles : k <= n

\* + New: SaveTargetsIfChanged, then CreateNewRoute.
CreateNewRoute ==
    /\ session.on /\ NewName \in Names
    /\ \E old \in SaveTargetsIfChanged(session, files[session.current]) :
       LET f == [files EXCEPT ![session.current] = old.left]
           s == [old.session EXCEPT !.current = NewName, !.targets = NoTargets,
                                    !.running = FALSE, !.createdEmpty = TRUE]
       IN  \E c \in SaveNewRoute(s, f[NewName]), p \in SaveRouteSettingIfChanged(s, setting) :
           LET g == [f EXCEPT ![NewName] = c.left]
           IN  \E listed \in RescanRouteFiles(g), w \in SaveTargetsIfChanged(c.session, c.left) :
                   /\ files' = [f EXCEPT ![NewName] = w.left]
                   /\ setting' = p.left
                   /\ session' = [w.session EXCEPT !.routeFiles = listed,
                                                   !.lastSetting = p.saved]
                   /\ ghost' = [loaded |-> TRUE, edited |-> FALSE,
                                refused |-> ghost.refused \/ ~(old.ok /\ c.ok /\ w.ok),
                                blind |-> ghost.blind \/ listed # RouteFilesOnCard(g)]
    /\ UNCHANGED <<backups, originals, legacy, spoiled>>

-------------------------------------------------------------------------------
(* A power cut during a write.  The writes of one handler follow one another,   *)
(* and a cut in a later one finds a state in which the earlier are done.        *)

\* The scans a handler that a cut ends may have begun with.
ScannedBeforeCut == IF session.on THEN {RouteFilesOnCard(files)} ELSE RescanRouteFiles(files)

\* The write of a route's file: a save, a new route, the first file.
CutInRouteFile(scanned) ==
    /\ \E n \in Names, x \in CutShort :
           /\ \/ session.on /\ n = session.current /\ session.lastSaved # session.targets
              \/ session.on /\ n = NewName
              \/ ~session.on /\ n = 0 /\ scanned = {}
           /\ files' = [files EXCEPT ![n] = x]
    /\ UNCHANGED <<backups, originals, setting, spoiled>>

\* The five-minute backup.
CutInBackup ==
    /\ session.on
    /\ \E x \in CutShort : backups' = [backups EXCEPT ![session.current] = x]
    /\ UNCHANGED <<files, originals, setting, spoiled>>

\* The card before a route is loaded, once the first file was written or the route on
\* screen left, and the routes that may be loaded then.
FilesAtLoad(scanned) ==
    IF session.on THEN {[files EXCEPT ![session.current] = l.left] : l \in LeaveRoute}
    ELSE {[files EXCEPT ![0] = w.left] : w \in FirstRouteFile(scanned)}
LoadedNext(scanned, f) ==
    IF session.on THEN session.routeFiles \cup {session.current}
    ELSE {ActiveRoute(scanned, listed) : listed \in ListedAtStart(scanned, f)}

\* The load of a file with old names: the copy, then the setting, then the file under
\* new names.
CutInMigration(scanned) ==
    \E f \in FilesAtLoad(scanned) :
    \E n \in LoadedNext(scanned, f), x \in CutShort :
        /\ f[n] \in Readable /\ ~f[n].canonical
        /\ \/ originals[n] = Absent
              /\ originals' = [originals EXCEPT ![n] = x]
              /\ files' = f /\ setting' = setting
              /\ spoiled' = (IF session.on THEN spoiled ELSE SpoiledByFirst(f)) \cup {n}
           \/ \E o \in MigrationBackup(f[n], originals[n]) :
                 /\ originals' = [originals EXCEPT ![n] = o.left]
                 /\ \/ files' = f /\ setting' = x
                    \/ files' = [f EXCEPT ![n] = x] /\ setting' \in {setting, n}
                 /\ spoiled' = (IF session.on THEN spoiled ELSE SpoiledByFirst(f))
                               \cup SpoiledByCopy(n, o.ok)
    /\ UNCHANGED backups

\* The setting.
CutInSetting ==
    /\ \E x \in CutShort : setting' = x
    /\ UNCHANGED <<files, backups, originals, spoiled>>

\* What the session had seen of faults is remembered until the next start.
Crash ==
    /\ "Crash" \in Faults
    /\ \E scanned \in ScannedBeforeCut :
           /\ \/ CutInRouteFile(scanned) \/ CutInBackup
              \/ CutInMigration(scanned) \/ CutInSetting
           /\ ghost' = [NoGhost EXCEPT !.refused = session.on /\ ghost.refused,
                                       !.blind = \/ session.on /\ ghost.blind
                                                 \/ scanned # RouteFilesOnCard(files)]
    /\ session' = Off
    /\ UNCHANGED legacy

-------------------------------------------------------------------------------
\* The card as the program may find it: routes of this version and of older ones,
\* files cut short, no file at all.
Init ==
    /\ files \in [Names -> Contents]
    /\ backups \in [Names -> {Absent, Unreadable} \cup {SerializeTargets(r) : r \in Routes}]
    /\ originals = [n \in Names |-> Absent]
    /\ legacy \in {Absent} \cup Readable
    /\ setting \in Names \cup {Absent, Unreadable}
    /\ session = Off /\ ghost = NoGhost /\ spoiled = {}

Frame == Update \/ UpdateTargetsBackup \/ RouteStartsOrEnds \/ RouteTakesTimes
Window == EditRoute \/ SwitchRoute \/ ReloadRoute \/ CreateNewRoute
Next == Initialize \/ Quit \/ Frame \/ Window \/ Crash

Spec == Init /\ [][Next]_vars

-------------------------------------------------------------------------------
(* Properties. *)

TypeOK ==
    /\ files \in [Names -> Contents]
    /\ backups \in [Names -> Contents]
    /\ originals \in [Names -> Contents]
    /\ legacy \in Contents
    /\ setting \in Names \cup {Absent, Unreadable}
    /\ session \in Session
    /\ ghost \in Ghost
    /\ spoiled \subseteq Names

\* A file that still holds a given route, under whatever names.
Holds(contents, route) == contents \in Readable /\ contents.route = route

\* What the module takes for saved is on the card.  lastSavedTargets is only a copy
\* in memory: a new route, a file that was not loaded, a route left for another or
\* deleted must each leave it such that the next call writes.  A refused save is the
\* exception: it may have deleted the file, and an edit taken back makes memory equal
\* what was saved before, so that nothing writes it again.
SavedIsOnCard ==
    session.on /\ ghost.loaded /\ ~ghost.refused /\ session.lastSaved = session.targets
        => Holds(files[session.current], session.targets)

\* "+ New" takes a name no file has, so that it never empties a route: as long as every
\* listing of the session was made and no write refused, the listing it counts from is
\* the directory.  After a listing that failed it is not: the list is empty, and "+ New"
\* begins at targets0.toml again, whatever that file holds.
NewRouteIsFresh ==
    [][~session.createdEmpty /\ session'.createdEmpty /\ ~ghost'.refused /\ ~ghost.blind
         => files[session'.current] = Absent]_vars

\* The only files the module deletes are those it created in this session for a route
\* that stayed empty; not one it could not read, and not one with steps.
DeletesOnlyEmpty ==
    [][\A n \in Names :
         session'.on /\ ~ghost'.refused /\ files[n] # Absent
           /\ files'[n] = Absent
             => Holds(files[n], NoTargets)]_vars

\* A file with old names is rewritten, deleted or cut short only beside a whole copy of
\* it, wherever the power fails.  The code asks only whether a file has the copy's name,
\* so the copy is worth nothing if the power failed, or the card refused, while it was
\* written, or if another file had the name before (spoiled): the next load then rewrites
\* the route with no copy, and a cut in that loses it.  A listing that failed at the start
\* is the other exception: targets0.toml is then written over, loaded or not.
MigrationKeepsOriginal ==
    [][\A n \in Names :
         files[n] \in Readable /\ ~files[n].canonical /\ files'[n] # files[n]
             => \/ originals'[n] = files[n]
                \/ n \in spoiled'
                \/ ghost'.refused \/ ghost'.blind]_vars

\* The comment in Initialize: "A missing or malformed file must not be replaced until
\* the user actually changes the in-memory route."  It is: the route that stays in
\* memory when another file does not load goes on running, and its times are saved.
MalformedFileKept ==
    [][session.on /\ session'.on /\ session'.current = session.current
         /\ ~ghost.loaded /\ ~ghost'.edited /\ ~ghost'.loaded
         => files'[session.current] = files[session.current]]_vars
=============================================================================
