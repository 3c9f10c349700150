---- MODULE RouteFiles_proofs ----
(***************************************************************************)
(* Proofs about RouteFiles, for every set of routes, number of files and   *)
(* choice of faults: refused writes are in, which the runs leave out.      *)
(*                                                                         *)
(* The inductive invariant IInv adds to the types what the copies in       *)
(* memory are worth: as long as the session saw no refused write, the      *)
(* listing is the directory unless a scan failed, the current file is      *)
(* there and has new names, and it holds what lastSavedTargets says; and   *)
(* what the copies on the card are worth, whatever failed: the copy of a   *)
(* file with old names is a copy of it, or its name counts as spoiled.     *)
(* One lemma says what each write and each load returns, and one step per  *)
(* action does the rest.                                                   *)
(***************************************************************************)
EXTENDS RouteFiles, WellFoundedInduction, TLAPS

\* A session that saw no refused write.
Sound == session.on /\ ~ghost.refused

\* Without a session its variables are as at the start of the program.
OffIsOff == session.on \/ session = Off

\* The listing is the directory, or a part of it if a scan failed.
ListingIsDirectory ==
    Sound => /\ session.routeFiles \subseteq RouteFilesOnCard(files)
             /\ ~ghost.blind => session.routeFiles = RouteFilesOnCard(files)

\* The current file exists, and if it can be read its names are new.
CurrentIsThere ==
    Sound => /\ files[session.current] # Absent
             /\ files[session.current] \in Readable => files[session.current].canonical

\* What counts as saved is on the card, pending changes or not.
LastSavedIsOnCard ==
    Sound /\ ghost.loaded => Holds(files[session.current], session.lastSaved)

\* A route created in this session was loaded by being created, and an empty one was
\* saved empty.
CreatedIsSaved ==
    Sound /\ session.createdEmpty
        => ghost.loaded /\ (session.targets = NoTargets => session.lastSaved = NoTargets)

\* A file as an older version left it.
Old(c) == c \in Readable /\ ~c.canonical

\* The copies kept of the files f are theirs.
CopiesOf(f, copies, except) ==
    \A n \in Names : Old(f[n]) /\ n \notin except => copies[n] \in {Absent, f[n]}

CopiesAreOfTheirFiles == CopiesOf(files, originals, spoiled)

IInv ==
    /\ TypeOK
    /\ OffIsOff
    /\ ListingIsDirectory
    /\ CurrentIsThere
    /\ LastSavedIsOnCard
    /\ CreatedIsSaved
    /\ CopiesAreOfTheirFiles

\* What a step without a cut or a refused write does to the route files: it deletes only
\* an empty route, and rewrites a file with old names only beside a copy.
Careful ==
    session'.on /\ ~ghost'.refused =>
        \A k \in Names :
            /\ files[k] # Absent /\ files'[k] = Absent => Holds(files[k], NoTargets)
            /\ Old(files[k]) /\ files'[k] # files[k] /\ ~ghost'.blind
                  => originals'[k] = files[k] \/ k \in spoiled'

----
(* Least and greatest names.                                               *)

LEMMA LeastNat ==
    ASSUME NEW S, S \subseteq Nat, S # {}
    PROVE  \E n \in S : \A k \in S : n <= k
<1>a. PICK n \in S : \A k \in S : ~(<<k, n>> \in OpToRel(<, Nat))
  BY NatLessThanWellFounded, WFMin
<1>b. \A k \in S : ~(k < n)
  BY <1>a DEF OpToRel
<1> QED BY <1>b, SMT

LEMMA GreatestName ==
    ASSUME NEW S, S \subseteq Names, S # {}
    PROVE  \E n \in S : \A k \in S : k <= n
<1> DEFINE T == {m \in Nat : \E n \in S : m = MaxRoutes - n}
<1>a. T \subseteq Nat /\ T # {}
  <2>a. PICK n \in S : TRUE
    OBVIOUS
  <2>b. MaxRoutes - n \in Nat
    BY <2>a, RouteFilesAssumption DEF Names
  <2>c. MaxRoutes - n \in T
    BY <2>a, <2>b
  <2> QED BY <2>c
<1>b. PICK m \in T : \A k \in T : m <= k
  BY <1>a, LeastNat
<1>c. PICK n \in S : m = MaxRoutes - n
  OBVIOUS
<1>d. ASSUME NEW k \in S PROVE k <= n
  <2>a. MaxRoutes - k \in T
    BY RouteFilesAssumption DEF Names
  <2>b. m <= MaxRoutes - k
    BY <1>b, <2>a
  <2> QED BY <1>c, <2>b, RouteFilesAssumption DEF Names
<1> QED BY <1>d

\* A name one above the highest listed is not listed.
LEMMA NewNameIsNew ==
    ASSUME session.routeFiles \subseteq Names
    PROVE  NewName \notin session.routeFiles
<1>a. CASE session.routeFiles = {}
  BY <1>a
<1>b. CASE session.routeFiles # {}
  <2> DEFINE m == CHOOSE n \in session.routeFiles : \A k \in session.routeFiles : k <= n
  <2>a. m \in session.routeFiles /\ \A k \in session.routeFiles : k <= m
    BY <1>b, GreatestName
  <2>b. NewName = 1 + m
    BY <1>b DEF NewName
  <2>c. m \in Int
    BY <2>a, RouteFilesAssumption DEF Names
  <2> HIDE DEF m
  <2> QED BY <2>a, <2>b, <2>c
<1> QED BY <1>a, <1>b

\* The route that is opened first is listed, if any is.
LEMMA ActiveRouteIsListed ==
    ASSUME NEW scanned, NEW listed, listed \subseteq Names
    PROVE  /\ ActiveRoute(scanned, listed) \in Names
           /\ listed # {} => ActiveRoute(scanned, listed) \in listed
           /\ listed = {} => ActiveRoute(scanned, listed) = 0
<1> DEFINE m == CHOOSE n \in listed : \A k \in listed : n <= k
<1>a. 0 \in Names
  BY RouteFilesAssumption DEF Names
<1>b. listed # {} => m \in listed
  <2>a. listed \subseteq Nat
    BY RouteFilesAssumption DEF Names
  <2> QED BY <2>a, LeastNat
<1> HIDE DEF m
<1> QED BY <1>a, <1>b DEF ActiveRoute, m

----
(* What a write returns.                                                   *)

Settings == Names \cup {Absent, Unreadable}

\* Two sessions alike in all but what was saved last.
SameButSaved(s, t) ==
    /\ s.on = t.on /\ s.current = t.current /\ s.routeFiles = t.routeFiles
    /\ s.targets = t.targets /\ s.lastSetting = t.lastSetting
    /\ s.createdEmpty = t.createdEmpty /\ s.running = t.running

LEMMA WriteResult ==
    ASSUME NEW old, NEW c, NEW w \in WriteTargetsFile(old, c)
    PROVE  /\ w.ok \in BOOLEAN
           /\ w.left \in {c, old, Absent, Unreadable}
           /\ w.ok => w.left = c
<1>a. \/ w = [left |-> c, ok |-> TRUE]
      \/ \E x \in {old, Absent, Unreadable} : w = [left |-> x, ok |-> FALSE]
  BY DEF WriteTargetsFile
<1>b. CASE w = [left |-> c, ok |-> TRUE]
  BY <1>b
<1>c. ASSUME NEW x \in {old, Absent, Unreadable}, w = [left |-> x, ok |-> FALSE]
      PROVE  w.left = x /\ w.ok = FALSE
  BY <1>c
<1> QED BY <1>a, <1>b, <1>c

LEMMA SerializeIsReadable ==
    ASSUME NEW r \in Routes
    PROVE  /\ SerializeTargets(r) \in Readable /\ SerializeTargets(r) \in Contents
           /\ SerializeTargets(r).canonical /\ SerializeTargets(r).route = r
           /\ SerializeTargets(r) # Absent /\ Holds(SerializeTargets(r), r)
<1>a. SerializeTargets(r) = [route |-> r, canonical |-> TRUE]
  BY DEF SerializeTargets
<1>b. SerializeTargets(r) \in Readable
  BY <1>a DEF Readable
<1>c. SerializeTargets(r).canonical /\ SerializeTargets(r).route = r
  BY <1>a
<1> QED BY <1>b, <1>c, RouteFilesAssumption DEF Contents, Holds

LEMMA SaveToFileResult ==
    ASSUME NEW s \in Session, NEW old \in Contents, NEW w \in SaveTargetsToFile(s, old)
    PROVE  /\ w.ok \in BOOLEAN /\ w.left \in Contents /\ w.session \in Session
           /\ SameButSaved(w.session, s)
           /\ w.ok => /\ w.left = SerializeTargets(s.targets)
                      /\ w.session.lastSaved = s.targets
           /\ Old(w.left) => w.left = old
<1>a. PICK v \in WriteTargetsFile(old, SerializeTargets(s.targets)) :
          w = [left |-> v.left, ok |-> v.ok,
               session |-> IF v.ok THEN [s EXCEPT !.lastSaved = s.targets] ELSE s]
  BY DEF SaveTargetsToFile
<1>b. s.targets \in Routes
  BY DEF Session
<1>c. /\ v.ok \in BOOLEAN
      /\ v.left \in {SerializeTargets(s.targets), old, Absent, Unreadable}
      /\ v.ok => v.left = SerializeTargets(s.targets)
  BY WriteResult
<1>d. v.left \in Contents
  BY <1>b, <1>c, SerializeIsReadable DEF Contents
<1>e. [s EXCEPT !.lastSaved = s.targets] \in Session
  BY <1>b DEF Session
<1>f. SameButSaved(w.session, s) /\ (w.ok => w.session.lastSaved = s.targets)
  BY <1>a, <1>c DEF SameButSaved, Session
<1>g. Old(v.left) => v.left = old
  BY <1>b, <1>c, SerializeIsReadable, RouteFilesAssumption DEF Old
<1> QED BY <1>a, <1>c, <1>d, <1>e, <1>f, <1>g

LEMMA SaveIfChangedResult ==
    ASSUME NEW s \in Session, NEW old \in Contents, NEW w \in SaveTargetsIfChanged(s, old)
    PROVE  /\ w.ok \in BOOLEAN /\ w.left \in Contents /\ w.session \in Session
           /\ SameButSaved(w.session, s)
           /\ s.lastSaved = s.targets => w.left = old /\ w.session = s /\ w.ok
           /\ w.ok => w.session.lastSaved = s.targets
           /\ w.ok /\ s.lastSaved # s.targets => w.left = SerializeTargets(s.targets)
           /\ Old(w.left) => w.left = old
<1>a. CASE s.lastSaved = s.targets
  <2>a. w = [left |-> old, ok |-> TRUE, session |-> s]
    BY <1>a DEF SaveTargetsIfChanged
  <2> QED BY <1>a, <2>a DEF SameButSaved
<1>b. CASE s.lastSaved # s.targets
  <2>a. w \in SaveTargetsToFile(s, old)
    BY <1>b DEF SaveTargetsIfChanged
  <2> QED BY <1>b, <2>a, SaveToFileResult
<1> QED BY <1>a, <1>b

LEMMA SettingResult ==
    ASSUME NEW s \in Session, NEW old \in Settings,
           NEW p \in SaveRouteSettingIfChanged(s, old)
    PROVE  p.left \in Settings /\ p.saved \in Names \cup {Never}
  BY WriteResult DEF SaveRouteSettingIfChanged, Settings, Session

\* LoadTargetsFromFile.  Of a file that loads and whose migration is not refused, memory
\* and lastSavedTargets hold the route, and the file does, under new names.
LEMMA LoadResult ==
    ASSUME NEW s \in Session, NEW c \in Contents, NEW o \in Contents, NEW q \in Settings,
           NEW l \in LoadTargetsFromFile(s, c, o, q)
    PROVE  /\ l.left \in Contents /\ l.original \in Contents /\ l.setting \in Settings
           /\ l.session \in Session
           /\ l.loaded \in BOOLEAN /\ l.copied \in BOOLEAN /\ l.kept \in BOOLEAN
           /\ l.session.on = s.on /\ l.session.current = s.current
           /\ l.session.routeFiles = s.routeFiles
           /\ l.session.createdEmpty = s.createdEmpty
           /\ l.loaded <=> c \in Readable
           /\ ~l.loaded => l.left = c /\ l.session = s
           /\ l.loaded /\ l.kept => /\ l.left \in Readable /\ l.left.canonical
                                    /\ l.session.lastSaved = l.session.targets
                                    /\ Holds(l.left, l.session.targets)
           /\ Old(l.left) => l.left = c
           /\ l.copied => l.original \in {o, c}
           /\ l.copied /\ Old(c) /\ l.loaded => l.original # Absent
           /\ ~Old(c) => l.original = o
<1>a. CASE c \notin Readable
  <2>a. l = [left |-> c, original |-> o, setting |-> q,
             session |-> s, loaded |-> FALSE, copied |-> TRUE, kept |-> TRUE]
    BY <1>a DEF LoadTargetsFromFile
  <2> QED BY <1>a, <2>a
<1>b. CASE c \in Readable
  <2>a. PICK v \in MigrationBackup(c, o), p \in SaveRouteSettingIfChanged(s, q),
             w \in SaveTargetsIfChanged(Loaded(s, c), c) :
            l = [left |-> w.left, original |-> v.left, setting |-> p.left,
                 session |-> [w.session EXCEPT !.lastSetting = p.saved],
                 loaded |-> TRUE, copied |-> v.ok, kept |-> w.ok]
    BY <1>b DEF LoadTargetsFromFile
  <2> DEFINE t == Loaded(s, c)
  <2>b. /\ t \in Session /\ t.on = s.on /\ t.current = s.current
        /\ t.routeFiles = s.routeFiles /\ t.createdEmpty = s.createdEmpty
        /\ t.targets = c.route
        /\ t.lastSaved = IF c.canonical THEN c.route ELSE Never
        /\ c.route \in Routes /\ c.canonical \in BOOLEAN
    BY <1>b DEF Loaded, Session, Readable
  <2> HIDE DEF t
  <2>c. /\ w.ok \in BOOLEAN /\ w.left \in Contents /\ w.session \in Session
        /\ SameButSaved(w.session, t)
        /\ t.lastSaved = t.targets => w.left = c /\ w.session = t /\ w.ok
        /\ w.ok => w.session.lastSaved = t.targets
        /\ w.ok /\ t.lastSaved # t.targets => w.left = SerializeTargets(t.targets)
        /\ Old(w.left) => w.left = c
    <3>a. w \in SaveTargetsIfChanged(t, c)
      BY <2>a DEF t
    <3> QED BY <2>b, <3>a, SaveIfChangedResult
  <2>d. p.left \in Settings /\ p.saved \in Names \cup {Never}
    BY SettingResult
  <2>e. /\ v.left \in Contents /\ v.ok \in BOOLEAN
        /\ v.ok /\ ~c.canonical => v.left # Absent
        /\ v.ok => v.left \in {o, c}
        /\ c.canonical => v.left = o
    <3>a. CASE c.canonical \/ o # Absent
      <4>a. v = [left |-> o, ok |-> TRUE]
        BY <3>a DEF MigrationBackup
      <4> QED BY <3>a, <4>a
    <3>b. CASE ~(c.canonical \/ o # Absent)
      <4>a. v \in WriteTargetsFile(o, c)
        BY <3>b DEF MigrationBackup
      <4>b. c # Absent
        BY <1>b, RouteFilesAssumption
      <4> QED BY <3>b, <4>a, <4>b, WriteResult DEF Contents
    <3> QED BY <3>a, <3>b
  <2>f. /\ l.session \in Session /\ l.session.on = s.on /\ l.session.current = s.current
        /\ l.session.routeFiles = s.routeFiles
        /\ l.session.createdEmpty = s.createdEmpty
        /\ l.session.targets = t.targets /\ l.session.lastSaved = w.session.lastSaved
    BY <2>a, <2>b, <2>c, <2>d DEF Session, SameButSaved
  <2>g. Never \notin Routes
    BY RouteFilesAssumption
  <2>h. CASE c.canonical
    <3>a. w.left = c /\ Holds(c, t.targets)
      BY <1>b, <2>b, <2>c, <2>h DEF Holds
    <3> QED BY <1>b, <2>a, <2>b, <2>c, <2>d, <2>e, <2>f, <2>h, <3>a DEF Old
  <2>i. CASE ~c.canonical
    <3>a. t.lastSaved # t.targets
      BY <2>b, <2>g, <2>i
    <3>b. w.ok => /\ w.left \in Readable /\ w.left.canonical
                  /\ Holds(w.left, t.targets)
      BY <2>b, <2>c, <3>a, SerializeIsReadable
    <3> QED BY <1>b, <2>a, <2>b, <2>c, <2>d, <2>e, <2>f, <2>i, <3>b DEF Old
  <2> QED BY <2>b, <2>h, <2>i
<1> QED BY <1>a, <1>b

\* A load followed by the save at the end of MenuWindow: of what was not refused, the
\* second write adds nothing to a route that loaded.
LEMMA ArriveResult ==
    ASSUME NEW s \in Session, NEW c \in Contents, NEW o \in Contents, NEW q \in Settings,
           NEW l \in LoadTargetsFromFile(s, c, o, q),
           NEW w \in SaveTargetsIfChanged(l.session, l.left)
    PROVE  /\ w.left \in Contents /\ w.session \in Session /\ w.ok \in BOOLEAN
           /\ w.session.on = s.on /\ w.session.current = s.current
           /\ w.session.routeFiles = s.routeFiles
           /\ w.session.createdEmpty = s.createdEmpty
           /\ l.loaded /\ l.kept => /\ w.left = l.left /\ w.left \in Readable
                                    /\ w.left.canonical
                                    /\ w.session.lastSaved = w.session.targets
                                    /\ Holds(w.left, w.session.lastSaved)
           /\ ~l.loaded /\ w.ok => \/ w.left = c
                                   \/ w.left \in Readable /\ w.left.canonical
           /\ ~l.loaded /\ s.lastSaved = s.targets => w.left = c
           /\ Old(w.left) => w.left = c
<1>a. /\ l.left \in Contents /\ l.session \in Session /\ l.loaded \in BOOLEAN
      /\ l.session.on = s.on /\ l.session.current = s.current
      /\ l.session.routeFiles = s.routeFiles
      /\ l.session.createdEmpty = s.createdEmpty
      /\ ~l.loaded => l.left = c /\ l.session = s
      /\ l.loaded /\ l.kept => /\ l.left \in Readable /\ l.left.canonical
                               /\ l.session.lastSaved = l.session.targets
                               /\ Holds(l.left, l.session.targets)
      /\ Old(l.left) => l.left = c
  BY LoadResult
<1>b. /\ w.ok \in BOOLEAN /\ w.left \in Contents /\ w.session \in Session
      /\ SameButSaved(w.session, l.session)
      /\ l.session.lastSaved = l.session.targets
            => w.left = l.left /\ w.session = l.session /\ w.ok
      /\ w.ok /\ l.session.lastSaved # l.session.targets
            => w.left = SerializeTargets(l.session.targets)
      /\ Old(w.left) => w.left = l.left
  BY <1>a, SaveIfChangedResult
<1>c. /\ SerializeTargets(l.session.targets) \in Readable
      /\ SerializeTargets(l.session.targets).canonical
  BY <1>a, SerializeIsReadable DEF Session
<1>d. /\ w.session.on = s.on /\ w.session.current = s.current
      /\ w.session.routeFiles = s.routeFiles
      /\ w.session.createdEmpty = s.createdEmpty
  BY <1>a, <1>b DEF SameButSaved
<1>e. l.loaded /\ l.kept => /\ w.left = l.left /\ w.left \in Readable
                            /\ w.left.canonical
                            /\ w.session.lastSaved = w.session.targets
                            /\ Holds(w.left, w.session.lastSaved)
  BY <1>a, <1>b
<1>f. ~l.loaded /\ w.ok => w.left = c \/ (w.left \in Readable /\ w.left.canonical)
  BY <1>a, <1>b, <1>c
<1>g. ~l.loaded /\ s.lastSaved = s.targets => w.left = c
  BY <1>a, <1>b
<1>h. Old(w.left) => w.left = c
  BY <1>a, <1>b
<1> QED BY <1>b, <1>d, <1>e, <1>f, <1>g, <1>h

LEMMA ReadableIsThere ==
    ASSUME NEW c \in Readable
    PROVE  c # Absent /\ c \in Contents
  BY RouteFilesAssumption DEF Contents

\* Writing a file that is there does not change the listing.
LEMMA RescanKept ==
    ASSUME NEW f \in [Names -> Contents], NEW n \in Names, NEW c,
           f[n] # Absent, c # Absent
    PROVE  RouteFilesOnCard([f EXCEPT ![n] = c]) = RouteFilesOnCard(f)
  BY DEF RouteFilesOnCard

LEMMA ScanResult ==
    ASSUME NEW f, NEW listed \in RescanRouteFiles(f)
    PROVE  listed \subseteq Names /\ listed \subseteq RouteFilesOnCard(f)
  BY DEF RescanRouteFiles, RouteFilesOnCard

\* Copies stay those of their files when a load changes the file n of the files f and its
\* copy.
LEMMA CopiesKept ==
    ASSUME NEW f \in [Names -> Contents], NEW n \in Names, NEW c \in Contents,
           NEW o \in Contents, NEW more,
           originals \in [Names -> Contents], CopiesOf(f, originals, more),
           Old(c) => c = f[n], n \in more \/ o \in {originals[n], f[n]}
    PROVE  CopiesOf([f EXCEPT ![n] = c], [originals EXCEPT ![n] = o], more)
  BY DEF CopiesOf

\* They stay so, too, when a file is saved, under new names, and more names are spoiled.
LEMMA CopiesKeptBySave ==
    ASSUME NEW f \in [Names -> Contents], NEW n \in Names, NEW c \in Contents,
           NEW copies, NEW less, NEW more,
           CopiesOf(f, copies, less), Old(c) => c = f[n], less \subseteq more
    PROVE  CopiesOf([f EXCEPT ![n] = c], copies, more)
  BY DEF CopiesOf

LEMMA OffIsTyped == Off \in Session /\ NoGhost \in Ghost
<1>a. 0 \in Names
  BY RouteFilesAssumption DEF Names
<1> QED BY <1>a, RouteFilesAssumption DEF Off, NoGhost, Session, Ghost

\* Init establishes the invariant.
LEMMA InitInv == Init => IInv
<1> SUFFICES ASSUME Init PROVE IInv
  OBVIOUS
<1>a. TypeOK
  <2>a. backups \in [Names -> Contents]
    <3>a. \A r \in Routes : SerializeTargets(r) \in Contents
      BY SerializeIsReadable
    <3> QED BY <3>a DEF Init, Contents
  <2>b. originals \in [Names -> Contents] /\ legacy \in Contents
    BY DEF Init, Contents
  <2> QED BY <2>a, <2>b, OffIsTyped DEF Init, TypeOK
<1>b. session = Off /\ ~session.on
  BY DEF Init, Off
<1>c. CopiesAreOfTheirFiles
  BY DEF Init, CopiesAreOfTheirFiles, CopiesOf
<1> QED BY <1>a, <1>b, <1>c DEF IInv, OffIsOff, ListingIsDirectory, CurrentIsThere,
                          LastSavedIsOnCard, CreatedIsSaved, Sound

\* An end of the session, clean or not.
LEMMA EndInv ==
    ASSUME session' = Off, ghost' \in Ghost,
           files' \in [Names -> Contents], backups' \in [Names -> Contents],
           originals' \in [Names -> Contents], legacy' \in Contents, setting' \in Settings,
           spoiled' \subseteq Names, CopiesOf(files', originals', spoiled')
    PROVE  IInv'
<1>a. ~session'.on
  BY DEF Off
<1> QED BY <1>a, OffIsTyped DEF IInv, TypeOK, OffIsOff, ListingIsDirectory, CurrentIsThere,
                      LastSavedIsOnCard, CreatedIsSaved, CopiesAreOfTheirFiles, Sound, Settings

\* A save of the route in place, edited or not.
LEMMA SaveInv ==
    ASSUME IInv, session.on, NEW s \in Session,
           s.on, s.current = session.current, s.routeFiles = session.routeFiles,
           s.lastSaved = session.lastSaved, s.createdEmpty = session.createdEmpty,
           NEW w \in SaveTargetsIfChanged(s, files[session.current]),
           files' = [files EXCEPT ![session.current] = w.left], session' = w.session,
           ghost' \in Ghost, ghost'.loaded = ghost.loaded,
           ghost'.refused = (ghost.refused \/ ~w.ok), ghost'.blind = ghost.blind,
           UNCHANGED <<backups, originals, legacy, setting, spoiled>>
    PROVE  IInv' /\ Careful /\ session'.on /\ session'.createdEmpty = session.createdEmpty
<1> DEFINE n == session.current
           c == files[n]
<1>a. n \in Names /\ c \in Contents /\ session \in Session /\ files \in [Names -> Contents]
      /\ ghost \in Ghost
  BY DEF IInv, TypeOK, Session
<1>b. /\ w.ok \in BOOLEAN /\ w.left \in Contents /\ w.session \in Session
      /\ SameButSaved(w.session, s)
      /\ s.lastSaved = s.targets => w.left = c /\ w.session = s /\ w.ok
      /\ w.ok => w.session.lastSaved = s.targets
      /\ w.ok /\ s.lastSaved # s.targets => w.left = SerializeTargets(s.targets)
      /\ Old(w.left) => w.left = c
  BY <1>a, SaveIfChangedResult
<1>c. /\ SerializeTargets(s.targets) \in Readable /\ SerializeTargets(s.targets).canonical
      /\ SerializeTargets(s.targets) # Absent
      /\ Holds(SerializeTargets(s.targets), s.targets)
  BY SerializeIsReadable DEF Session
<1>d. TypeOK'
  BY <1>a, <1>b DEF IInv, TypeOK
<1>e. session'.on /\ session'.current = n /\ session'.routeFiles = session.routeFiles
      /\ session'.createdEmpty = session.createdEmpty /\ session'.targets = s.targets
  BY <1>b DEF SameButSaved
<1>f. files'[n] = w.left
  BY <1>a
<1>g. Sound' => /\ Sound /\ w.ok /\ session'.lastSaved = s.targets
                /\ \/ w.left = c /\ session'.lastSaved = session.lastSaved
                   \/ w.left = SerializeTargets(s.targets)
  BY <1>a, <1>b DEF Sound, Ghost
<1>h. Sound' => w.left # Absent /\ (w.left \in Readable => w.left.canonical)
  BY <1>c, <1>g DEF IInv, CurrentIsThere
<1>i. ListingIsDirectory'
  <2>a. SUFFICES ASSUME Sound'
                 PROVE  /\ session.routeFiles \subseteq RouteFilesOnCard(files')
                        /\ ~ghost.blind => session.routeFiles = RouteFilesOnCard(files')
    BY <1>e DEF ListingIsDirectory
  <2>b. /\ c # Absent /\ w.left # Absent
        /\ session.routeFiles \subseteq RouteFilesOnCard(files)
        /\ ~ghost.blind => session.routeFiles = RouteFilesOnCard(files)
    BY <2>a, <1>g, <1>h DEF IInv, CurrentIsThere, ListingIsDirectory
  <2> QED BY <1>a, <2>b, RescanKept
<1>j.  CurrentIsThere'
  BY <1>e, <1>f, <1>h DEF CurrentIsThere
<1>k.  LastSavedIsOnCard'
  <2>a. SUFFICES ASSUME Sound', ghost.loaded PROVE Holds(w.left, session'.lastSaved)
    BY <1>e, <1>f DEF LastSavedIsOnCard
  <2> QED BY <2>a, <1>c, <1>g DEF IInv, LastSavedIsOnCard
<1>l.  CreatedIsSaved'
  BY <1>e, <1>g DEF IInv, CreatedIsSaved
<1>m.  OffIsOff'
  BY <1>e DEF OffIsOff
<1>n.  Careful
  <2>a. SUFFICES ASSUME ~ghost'.refused, NEW k \in Names
                 PROVE  /\ files[k] # Absent /\ files'[k] = Absent
                              => Holds(files[k], NoTargets)
                        /\ Old(files[k]) /\ files'[k] # files[k] /\ ~ghost'.blind
                              => originals'[k] = files[k] \/ k \in spoiled'
    BY DEF Careful
  <2>b. Sound'
    BY <1>e, <2>a DEF Sound
  <2>c. CASE k = n
    BY <1>f, <1>g, <1>h, <2>b, <2>c DEF IInv, CurrentIsThere, Old
  <2>d. CASE k # n
    BY <1>a, <2>d
  <2> QED BY <2>c, <2>d
<1>o.  CopiesAreOfTheirFiles'
  BY <1>a, <1>b, CopiesKeptBySave DEF IInv, CopiesAreOfTheirFiles
<1> QED BY <1>d, <1>e, <1>i, <1>j, <1>k, <1>l, <1>m, <1>n, <1>o DEF IInv

\* A handler that ends with the content c in the file n of the files f, which its last
\* listing R saw.
LEMMA PlaceInv ==
    ASSUME NEW f \in [Names -> Contents], NEW n \in Names, NEW c \in Contents, NEW R,
           files' = [f EXCEPT ![n] = c],
           backups' \in [Names -> Contents], originals' \in [Names -> Contents],
           legacy' \in Contents, setting' \in Settings,
           session' \in Session, ghost' \in Ghost, spoiled' \subseteq Names,
           CopiesAreOfTheirFiles',
           session'.on, session'.current = n, session'.routeFiles = R,
           ~ghost'.refused =>
               /\ R \subseteq RouteFilesOnCard(f)
               /\ ~ghost'.blind => R = RouteFilesOnCard(f)
               /\ f[n] # Absent
               /\ c # Absent /\ (c \in Readable => c.canonical)
               /\ ghost'.loaded => Holds(c, session'.lastSaved)
               /\ session'.createdEmpty =>
                      /\ ghost'.loaded
                      /\ session'.targets = NoTargets => session'.lastSaved = NoTargets
    PROVE  IInv'
<1>a. TypeOK'
  BY DEF TypeOK, Settings
<1>b. files'[n] = c
  OBVIOUS
<1>c. ListingIsDirectory'
  <2>a. SUFFICES ASSUME ~ghost'.refused
                 PROVE  /\ R \subseteq RouteFilesOnCard(files')
                        /\ ~ghost'.blind => R = RouteFilesOnCard(files')
    BY DEF ListingIsDirectory, Sound
  <2> QED BY <2>a, RescanKept
<1>d. CurrentIsThere' /\ LastSavedIsOnCard' /\ CreatedIsSaved' /\ OffIsOff'
  BY <1>b DEF CurrentIsThere, LastSavedIsOnCard, CreatedIsSaved, OffIsOff, Sound
<1> QED BY <1>a, <1>c, <1>d DEF IInv

LEMMA FirstRouteFileResult ==
    ASSUME IInv, NEW scanned \in RescanRouteFiles(files), NEW first \in FirstRouteFile(scanned)
    PROVE  /\ first.left \in Contents /\ first.ok \in BOOLEAN
           /\ scanned = RouteFilesOnCard(files) /\ files[0] # Absent => first.left = files[0]
           /\ scanned # {} => /\ first.left = files[0]
                              /\ scanned = RouteFilesOnCard([files EXCEPT ![0] = first.left])
           /\ first.ok /\ scanned = {} => first.left # Absent
<1>a. 0 \in Names /\ files \in [Names -> Contents] /\ legacy \in Contents
  BY RouteFilesAssumption DEF IInv, TypeOK, Names
<1>b. CASE scanned # {}
  <2>a. first = [left |-> files[0], ok |-> TRUE]
    BY <1>b DEF FirstRouteFile
  <2>b. [files EXCEPT ![0] = files[0]] = files
    BY <1>a
  <2>c. scanned = RouteFilesOnCard(files)
    BY <1>b DEF RescanRouteFiles
  <2> QED BY <1>a, <1>b, <2>a, <2>b, <2>c
<1>c. CASE scanned = {}
  <2> DEFINE c == IF legacy # Absent THEN legacy ELSE SerializeTargets(NoTargets)
  <2>a. first \in WriteTargetsFile(files[0], c)
    BY <1>c DEF FirstRouteFile
  <2>b. c \in Contents /\ c # Absent
    BY <1>a, SerializeIsReadable, RouteFilesAssumption
  <2> HIDE DEF c
  <2>c. first.ok \in BOOLEAN /\ first.left \in Contents /\ (first.ok => first.left # Absent)
    <3>a. /\ first.ok \in BOOLEAN
          /\ first.left \in {c, files[0], Absent, Unreadable}
          /\ first.ok => first.left = c
      BY <2>a, WriteResult
    <3> QED BY <1>a, <2>b, <3>a DEF Contents
  <2>d. scanned = RouteFilesOnCard(files) => files[0] = Absent
    BY <1>a, <1>c DEF RouteFilesOnCard
  <2> QED BY <1>c, <2>c, <2>d
<1> QED BY <1>b, <1>c

\* Copies stay those of their files when the first file is written, once a name that was
\* used before counts as spoiled.
LEMMA FirstCopies ==
    ASSUME IInv, NEW c \in Contents
    PROVE  /\ CopiesOf([files EXCEPT ![0] = c], originals,
                       SpoiledByFirst([files EXCEPT ![0] = c]))
           /\ SpoiledByFirst([files EXCEPT ![0] = c]) \subseteq Names
<1> DEFINE f == [files EXCEPT ![0] = c]
<1>a. /\ 0 \in Names /\ files \in [Names -> Contents] /\ spoiled \subseteq Names
      /\ CopiesOf(files, originals, spoiled)
  BY RouteFilesAssumption DEF IInv, TypeOK, Names, CopiesAreOfTheirFiles
<1>b. f \in [Names -> Contents] /\ \A k \in Names \ {0} : f[k] = files[k]
  BY <1>a
<1> HIDE DEF f
<1>c. spoiled \subseteq SpoiledByFirst(f)
  BY DEF SpoiledByFirst
<1>d. ASSUME NEW k \in Names, Old(f[k]), k \notin SpoiledByFirst(f)
      PROVE  originals[k] \in {Absent, f[k]}
  <2>a. CASE f[k] = files[k]
    BY <1>a, <1>c, <1>d, <2>a DEF CopiesOf
  <2>b. CASE f[k] # files[k]
    BY <1>b, <1>d, <2>b DEF SpoiledByFirst
  <2> QED BY <2>a, <2>b
<1>e. SpoiledByFirst(f) \subseteq Names
  BY <1>a DEF SpoiledByFirst
<1>f. CopiesOf(f, originals, SpoiledByFirst(f))
  BY <1>d DEF CopiesOf
<1> QED BY <1>e, <1>f DEF f

\* A program start.
LEMMA InitializeInv ==
    IInv /\ Initialize => IInv' /\ Careful /\ session'.on /\ ~session'.createdEmpty
<1> SUFFICES ASSUME IInv, Initialize
             PROVE  IInv' /\ Careful /\ session'.on /\ ~session'.createdEmpty
  OBVIOUS
<1> DEFINE after(f, n, l, first, scanned, listed) ==
              /\ files' = [f EXCEPT ![n] = l.left]
              /\ originals' = [originals EXCEPT ![n] = l.original]
              /\ setting' = l.setting
              /\ session' = [l.session EXCEPT !.lastSaved = l.session.targets]
              /\ ghost' = [loaded |-> l.loaded, edited |-> FALSE,
                           refused |-> ~(first.ok /\ l.copied /\ l.kept),
                           blind |-> \/ scanned # RouteFilesOnCard(files)
                                     \/ listed # RouteFilesOnCard(f)]
              /\ spoiled' = SpoiledByFirst(f) \cup SpoiledByCopy(n, l.copied)
<1>a. PICK scanned \in RescanRouteFiles(files) : \E first \in FirstRouteFile(scanned) :
      LET f == [files EXCEPT ![0] = first.left]
      IN  \E listed \in ListedAtStart(scanned, f) :
          LET n == ActiveRoute(scanned, listed)
              s == [Off EXCEPT !.on = TRUE, !.current = n, !.routeFiles = listed]
          IN  \E p \in SaveRouteSettingIfChanged(s, setting) :
              \E l \in LoadTargetsFromFile([s EXCEPT !.lastSetting = p.saved],
                                           f[n], originals[n], p.left) :
                  after(f, n, l, first, scanned, listed)
  BY DEF Initialize
<1> HIDE DEF after
<1>first. PICK first \in FirstRouteFile(scanned) :
      LET f == [files EXCEPT ![0] = first.left]
      IN  \E listed \in ListedAtStart(scanned, f) :
          LET n == ActiveRoute(scanned, listed)
              s == [Off EXCEPT !.on = TRUE, !.current = n, !.routeFiles = listed]
          IN  \E p \in SaveRouteSettingIfChanged(s, setting) :
              \E l \in LoadTargetsFromFile([s EXCEPT !.lastSetting = p.saved],
                                           f[n], originals[n], p.left) :
                  after(f, n, l, first, scanned, listed)
  BY <1>a
<1> DEFINE f == [files EXCEPT ![0] = first.left]
<1>listed. PICK listed \in ListedAtStart(scanned, f) :
      LET n == ActiveRoute(scanned, listed)
          s == [Off EXCEPT !.on = TRUE, !.current = n, !.routeFiles = listed]
      IN  \E p \in SaveRouteSettingIfChanged(s, setting) :
          \E l \in LoadTargetsFromFile([s EXCEPT !.lastSetting = p.saved],
                                       f[n], originals[n], p.left) :
              after(f, n, l, first, scanned, listed)
  BY <1>first
<1> DEFINE n == ActiveRoute(scanned, listed)
           s == [Off EXCEPT !.on = TRUE, !.current = n, !.routeFiles = listed]
<1>b. PICK p \in SaveRouteSettingIfChanged(s, setting) :
      \E l \in LoadTargetsFromFile([s EXCEPT !.lastSetting = p.saved],
                                   f[n], originals[n], p.left) :
          after(f, n, l, first, scanned, listed)
  BY <1>listed
<1> DEFINE t == [s EXCEPT !.lastSetting = p.saved]
<1>c. PICK l \in LoadTargetsFromFile(t, f[n], originals[n], p.left) :
          after(f, n, l, first, scanned, listed)
  BY <1>b
<1>d. /\ files \in [Names -> Contents] /\ originals \in [Names -> Contents]
      /\ setting \in Settings /\ legacy \in Contents /\ backups \in [Names -> Contents]
  BY DEF IInv, TypeOK, Settings
<1>e. /\ first.left \in Contents /\ first.ok \in BOOLEAN /\ 0 \in Names
  BY FirstRouteFileResult, RouteFilesAssumption DEF Names
<1>f. /\ f \in [Names -> Contents]
      /\ scanned = RouteFilesOnCard(files) =>
            \A k \in Names : files[k] # Absent => f[k] = files[k]
  BY <1>d, <1>e, FirstRouteFileResult
<1>copies. /\ CopiesOf(f, originals, SpoiledByFirst(f))
           /\ SpoiledByFirst(f) \subseteq Names
  BY <1>e, FirstCopies
<1>g. listed \subseteq Names /\ listed \subseteq RouteFilesOnCard(f)
  <2>a. scanned # {} => scanned = RouteFilesOnCard(f)
    BY FirstRouteFileResult
  <2> QED BY <2>a, ScanResult DEF ListedAtStart, RouteFilesOnCard
<1>h. n \in Names /\ (listed # {} => n \in listed) /\ (listed = {} => n = 0)
  BY <1>g, ActiveRouteIsListed
<1>i. first.ok => f[n] # Absent
  <2>a. CASE listed # {}
    BY <1>g, <1>h, <2>a DEF RouteFilesOnCard
  <2>b. CASE listed = {}
    <3>a. scanned = {}
      BY <2>b DEF ListedAtStart
    <3>b. f[0] = first.left
      BY <1>d, <1>e
    <3> QED BY <1>h, <2>b, <3>a, <3>b, FirstRouteFileResult
  <2> QED BY <2>a, <2>b
<1>j.  legacy' \in Contents /\ backups' \in [Names -> Contents]
  BY <1>d DEF Initialize
<1> HIDE DEF f, n
<1>k.  /\ s \in Session /\ s.on /\ s.current = n /\ s.routeFiles = listed
       /\ ~s.createdEmpty
  BY <1>g, <1>h, OffIsTyped DEF Off, Session
<1> HIDE DEF s
<1>l.  p.left \in Settings /\ p.saved \in Names \cup {Never}
  BY <1>d, <1>k, SettingResult
<1>m.  /\ t \in Session /\ t.on /\ t.current = n /\ t.routeFiles = listed
       /\ ~t.createdEmpty
  BY <1>k, <1>l DEF Session
<1> HIDE DEF t
<1>n.  f[n] \in Contents /\ originals[n] \in Contents
  BY <1>d, <1>f, <1>h
<1>o.  /\ l.left \in Contents /\ l.original \in Contents /\ l.setting \in Settings
       /\ l.session \in Session
       /\ l.loaded \in BOOLEAN /\ l.copied \in BOOLEAN /\ l.kept \in BOOLEAN
       /\ l.session.on /\ l.session.current = n
       /\ l.session.routeFiles = listed /\ ~l.session.createdEmpty
       /\ l.loaded <=> f[n] \in Readable
       /\ ~l.loaded => l.left = f[n]
       /\ l.loaded /\ l.kept => /\ l.left \in Readable /\ l.left.canonical
                                /\ Holds(l.left, l.session.targets)
       /\ Old(l.left) => l.left = f[n]
       /\ l.copied => l.original \in {originals[n], f[n]}
       /\ l.copied /\ Old(f[n]) /\ l.loaded => l.original # Absent
  BY <1>l, <1>m, <1>n, LoadResult
<1>now. after(f, n, l, first, scanned, listed)
  BY <1>c
<1>p.  /\ session' \in Session /\ session'.on /\ session'.current = n
       /\ session'.routeFiles = listed /\ ~session'.createdEmpty
       /\ session'.lastSaved = l.session.targets
  BY <1>now, <1>o DEF after, Session
<1>q.  /\ ghost' \in Ghost /\ ghost'.loaded = l.loaded
       /\ ~ghost'.refused => first.ok /\ l.copied /\ l.kept
       /\ ~ghost'.blind => /\ scanned = RouteFilesOnCard(files)
                           /\ listed = RouteFilesOnCard(f)
  BY <1>now, <1>e, <1>o DEF after, Ghost
<1>r.  ~ghost'.refused =>
           /\ f[n] # Absent /\ l.left # Absent /\ (l.left \in Readable => l.left.canonical)
           /\ ghost'.loaded => Holds(l.left, session'.lastSaved)
  BY <1>i, <1>o, <1>p, <1>q, ReadableIsThere
<1>s.  /\ files' = [f EXCEPT ![n] = l.left]
       /\ originals' = [originals EXCEPT ![n] = l.original]
       /\ spoiled' = SpoiledByFirst(f) \cup SpoiledByCopy(n, l.copied)
       /\ setting' = l.setting
  BY <1>now DEF after
<1>t.  originals' \in [Names -> Contents] /\ setting' \in Settings /\ spoiled' \subseteq Names
  BY <1>s, <1>copies, <1>d, <1>h, <1>o DEF SpoiledByCopy
<1>u.  CopiesAreOfTheirFiles'
  <2>a. CopiesOf(f, originals, spoiled')
    BY <1>copies, <1>s DEF CopiesOf
  <2>b. n \in spoiled' \/ l.original \in {originals[n], f[n]}
    BY <1>o, <1>s DEF SpoiledByCopy
  <2> QED BY <1>d, <1>f, <1>h, <1>o, <1>s, <2>a, <2>b, CopiesKept DEF CopiesAreOfTheirFiles
<1>v.  IInv'
  BY <1>f, <1>g, <1>h, <1>j, <1>o, <1>p, <1>q, <1>r, <1>s, <1>t, <1>u, PlaceInv
<1>w.  Careful
  <2>a. SUFFICES ASSUME ~ghost'.refused, NEW k \in Names
                 PROVE  /\ files[k] # Absent /\ files'[k] = Absent
                              => Holds(files[k], NoTargets)
                        /\ Old(files[k]) /\ files'[k] # files[k] /\ ~ghost'.blind
                              => originals'[k] = files[k] \/ k \in spoiled'
    BY DEF Careful
  <2>b. files'[n] = l.left /\ originals'[n] = l.original
    BY <1>s, <1>d, <1>f, <1>h
  <2>c. files'[k] # Absent \/ files[k] = Absent
    <3>a. k # n => files'[k] = f[k]
      BY <1>f, <1>s
    <3>b. f[k] # Absent \/ files[k] = Absent
      <4>a. CASE k = 0
        <5>a. f[0] = first.left
          BY <1>d, <1>e DEF f
        <5> QED BY <1>q, <2>a, <4>a, <5>a, FirstRouteFileResult
      <4>b. CASE k # 0
        BY <1>d, <4>b DEF f
      <4> QED BY <4>a, <4>b
    <3> QED BY <1>r, <2>a, <2>b, <3>a, <3>b
  <2>d. ASSUME Old(files[k]), files'[k] # files[k], ~ghost'.blind
        PROVE  originals'[k] = files[k] \/ k \in spoiled'
    <3>a. files[k] # Absent /\ f[k] = files[k]
      BY <1>f, <1>q, <2>d, ReadableIsThere DEF Old
    <3>b. k = n
      BY <1>f, <1>s, <2>d, <3>a
    <3>c. l.original \in {originals[n], f[n]} /\ l.original # Absent
      BY <1>o, <1>q, <2>a, <2>d, <3>a, <3>b DEF Old
    <3>d. n \notin spoiled' => originals[n] \in {Absent, f[n]}
      BY <1>copies, <1>h, <1>s, <2>d, <3>a, <3>b DEF CopiesOf
    <3> QED BY <2>b, <3>a, <3>b, <3>c, <3>d
  <2> QED BY <2>c, <2>d
<1> QED BY <1>p, <1>v, <1>w

\* What leaving the current route makes of its file and of the session.  Of a sound
\* session the file stays, or is deleted while it holds the empty route.
LEMMA LeaveResult ==
    ASSUME IInv, session.on, NEW left \in LeaveRoute
    PROVE  /\ left.left \in Contents /\ left.ok \in BOOLEAN /\ left.session \in Session
           /\ SameButSaved(left.session, session)
           /\ Old(left.left) => left.left = files[session.current]
           /\ Sound /\ left.ok =>
                 /\ left.session.lastSaved = left.session.targets
                 /\ \/ left.left \in Readable /\ left.left.canonical
                    \/ left.left = files[session.current]
                    \/ left.left = Absent /\ Holds(files[session.current], NoTargets)
<1> DEFINE c == files[session.current]
<1>a. session \in Session /\ c \in Contents
  BY DEF IInv, TypeOK, Session
<1>b. CASE DropsRoute
  <2>a. PICK x \in {Absent, c} : left = [left |-> x, ok |-> TRUE, session |-> session]
    BY <1>b DEF LeaveRoute
  <2>b. left.left \in Contents /\ left.ok \in BOOLEAN /\ left.session \in Session
        /\ SameButSaved(left.session, session) /\ left.session = session /\ left.left = x
        /\ (Old(x) => x = c)
    BY <1>a, <2>a, RouteFilesAssumption DEF Contents, SameButSaved, Old
  <2>c. Sound => /\ session.lastSaved = session.targets /\ session.targets = NoTargets
                 /\ Holds(c, NoTargets)
    BY <1>b DEF IInv, CreatedIsSaved, LastSavedIsOnCard, DropsRoute
  <2> QED BY <2>a, <2>b, <2>c
<1>c. CASE ~DropsRoute
  <2>a. left \in SaveTargetsIfChanged(session, c)
    BY <1>c DEF LeaveRoute
  <2>b. /\ left.ok \in BOOLEAN /\ left.left \in Contents /\ left.session \in Session
        /\ SameButSaved(left.session, session)
        /\ session.lastSaved = session.targets => left.left = c
        /\ left.ok => left.session.lastSaved = session.targets
        /\ left.ok /\ session.lastSaved # session.targets
              => left.left = SerializeTargets(session.targets)
        /\ Old(left.left) => left.left = c
    BY <1>a, <2>a, SaveIfChangedResult
  <2>c. SerializeTargets(session.targets) \in Readable
        /\ SerializeTargets(session.targets).canonical
    BY <1>a, SerializeIsReadable DEF Session
  <2>d. left.session.targets = session.targets
    BY <2>b DEF SameButSaved
  <2> QED BY <2>b, <2>c, <2>d
<1> QED BY <1>b, <1>c

\* A switch to another listed route.
LEMMA SwitchInv ==
    IInv /\ SwitchRoute => IInv' /\ Careful /\ session'.on /\ ~session'.createdEmpty
<1> SUFFICES ASSUME IInv, SwitchRoute
             PROVE  IInv' /\ Careful /\ session'.on /\ ~session'.createdEmpty
  OBVIOUS
<1> DEFINE after(f, n, l, left, listed, w) ==
              /\ files' = [f EXCEPT ![n] = w.left]
              /\ originals' = [originals EXCEPT ![n] = l.original]
              /\ setting' = l.setting
              /\ session' = [w.session EXCEPT !.routeFiles = listed]
              /\ ghost' = [loaded |-> l.loaded, edited |-> FALSE,
                           refused |-> ghost.refused
                                       \/ ~(left.ok /\ l.copied /\ l.kept /\ w.ok),
                           blind |-> \/ ghost.blind
                                     \/ listed # RouteFilesOnCard([f EXCEPT ![n] = l.left])]
              /\ spoiled' = spoiled \cup SpoiledByCopy(n, l.copied)
<1>a. PICK n \in session.routeFiles \ {session.current}, left \in LeaveRoute :
      LET f == [files EXCEPT ![session.current] = left.left]
          s == [left.session EXCEPT !.current = n, !.createdEmpty = FALSE]
      IN  \E l \in LoadTargetsFromFile(s, f[n], originals[n], setting) :
          \E listed \in RescanRouteFiles([f EXCEPT ![n] = l.left]),
             w \in SaveTargetsIfChanged(l.session, l.left) : after(f, n, l, left, listed, w)
  BY DEF SwitchRoute
<1> HIDE DEF after
<1> DEFINE f == [files EXCEPT ![session.current] = left.left]
           s == [left.session EXCEPT !.current = n, !.createdEmpty = FALSE]
<1>loaded. PICK l \in LoadTargetsFromFile(s, f[n], originals[n], setting) :
      \E listed \in RescanRouteFiles([f EXCEPT ![n] = l.left]),
         w \in SaveTargetsIfChanged(l.session, l.left) : after(f, n, l, left, listed, w)
  BY <1>a
<1>b. PICK R \in RescanRouteFiles([f EXCEPT ![n] = l.left]),
           w \in SaveTargetsIfChanged(l.session, l.left) : after(f, n, l, left, R, w)
  BY <1>loaded
<1>c. /\ session.on /\ session \in Session /\ session.current \in Names
      /\ files \in [Names -> Contents] /\ originals \in [Names -> Contents]
      /\ setting \in Settings /\ ghost \in Ghost /\ spoiled \subseteq Names
      /\ legacy' \in Contents /\ backups' \in [Names -> Contents]
      /\ CopiesOf(files, originals, spoiled)
  BY DEF SwitchRoute, IInv, TypeOK, Settings, Session, CopiesAreOfTheirFiles
<1>d. n \in Names /\ n # session.current
  BY <1>a, <1>c DEF Session
<1>e. /\ left.left \in Contents /\ left.ok \in BOOLEAN /\ left.session \in Session
      /\ SameButSaved(left.session, session)
      /\ Old(left.left) => left.left = files[session.current]
      /\ Sound /\ left.ok =>
            /\ left.session.lastSaved = left.session.targets
            /\ \/ left.left \in Readable /\ left.left.canonical
               \/ left.left = files[session.current]
               \/ left.left = Absent /\ Holds(files[session.current], NoTargets)
  BY <1>c, LeaveResult
<1>f. /\ f \in [Names -> Contents] /\ f[n] = files[n] /\ f[n] \in Contents
      /\ originals[n] \in Contents /\ f[session.current] = left.left
      /\ \A k \in Names \ {session.current} : f[k] = files[k]
  BY <1>c, <1>d, <1>e
<1> HIDE DEF f
<1>g. /\ s \in Session /\ s.on /\ s.current = n /\ ~s.createdEmpty
      /\ s.lastSaved = left.session.lastSaved /\ s.targets = left.session.targets
  BY <1>c, <1>d, <1>e DEF Session, SameButSaved
<1> HIDE DEF s
<1>h. /\ l.left \in Contents /\ l.original \in Contents /\ l.setting \in Settings
      /\ l.loaded \in BOOLEAN /\ l.copied \in BOOLEAN /\ l.kept \in BOOLEAN
      /\ l.loaded <=> f[n] \in Readable
      /\ ~l.loaded => l.left = f[n]
      /\ l.loaded /\ l.kept => l.left \in Readable /\ l.left.canonical
      /\ l.copied => l.original \in {originals[n], f[n]}
      /\ l.copied /\ Old(f[n]) /\ l.loaded => l.original # Absent
  BY <1>c, <1>f, <1>g, LoadResult
<1>i. /\ w.left \in Contents /\ w.session \in Session /\ w.ok \in BOOLEAN
      /\ w.session.on /\ w.session.current = n /\ ~w.session.createdEmpty
      /\ l.loaded /\ l.kept => /\ w.left = l.left /\ w.left \in Readable /\ w.left.canonical
                               /\ Holds(w.left, w.session.lastSaved)
      /\ ~l.loaded /\ s.lastSaved = s.targets => w.left = f[n]
      /\ Old(w.left) => w.left = f[n]
  BY <1>c, <1>f, <1>g, ArriveResult
<1>j.  R \subseteq Names
  BY ScanResult
<1>k.  /\ session' \in Session /\ session'.on /\ session'.current = n
       /\ session'.routeFiles = R /\ ~session'.createdEmpty
       /\ session'.lastSaved = w.session.lastSaved
  BY <1>b, <1>i, <1>j DEF Session, after
<1>l.  /\ ghost' \in Ghost /\ ghost'.loaded = l.loaded
       /\ ~ghost'.refused => ~ghost.refused /\ left.ok /\ l.copied /\ l.kept /\ w.ok
       /\ ~ghost'.blind => ~ghost.blind /\ R = RouteFilesOnCard([f EXCEPT ![n] = l.left])
  BY <1>b, <1>c, <1>e, <1>h, <1>i DEF Ghost, after
<1>now. /\ files' = [f EXCEPT ![n] = w.left]
        /\ originals' = [originals EXCEPT ![n] = l.original]
        /\ setting' = l.setting
        /\ spoiled' = spoiled \cup SpoiledByCopy(n, l.copied)
  BY <1>b DEF after
<1>m.  ASSUME ~ghost'.refused
       PROVE  /\ R \subseteq RouteFilesOnCard(f)
              /\ ~ghost'.blind => R = RouteFilesOnCard(f)
              /\ f[n] # Absent
              /\ w.left # Absent /\ (w.left \in Readable => w.left.canonical)
              /\ ghost'.loaded => Holds(w.left, session'.lastSaved)
  <2>a. Sound
    BY <1>c, <1>l, <1>m DEF Sound
  <2>b. f[n] # Absent
    BY <1>a, <1>f, <2>a DEF IInv, ListingIsDirectory, RouteFilesOnCard
  <2>c. s.lastSaved = s.targets
    BY <1>e, <1>g, <1>l, <1>m, <2>a
  <2>d. CASE l.loaded
    <3>a. l.left # Absent /\ w.left # Absent
      BY <1>h, <1>i, <1>l, <1>m, <2>d, ReadableIsThere
    <3>b. RouteFilesOnCard([f EXCEPT ![n] = l.left]) = RouteFilesOnCard(f)
      BY <1>d, <1>f, <2>b, <3>a, RescanKept
    <3>c. R \subseteq RouteFilesOnCard(f) /\ (~ghost'.blind => R = RouteFilesOnCard(f))
      BY <1>l, <3>b, ScanResult
    <3> QED BY <1>i, <1>k, <1>l, <1>m, <2>b, <2>d, <3>a, <3>c
  <2>e. CASE ~l.loaded
    <3>a. l.left = f[n] /\ w.left = f[n] /\ f[n] \notin Readable
      BY <1>h, <1>i, <2>c, <2>e
    <3>b. RouteFilesOnCard([f EXCEPT ![n] = l.left]) = RouteFilesOnCard(f)
      BY <1>d, <1>f, <2>b, <3>a, RescanKept
    <3>c. R \subseteq RouteFilesOnCard(f) /\ (~ghost'.blind => R = RouteFilesOnCard(f))
      BY <1>l, <3>b, ScanResult
    <3> QED BY <1>l, <2>b, <2>e, <3>a, <3>c
  <2> QED BY <1>h, <2>d, <2>e
<1>n.  originals' \in [Names -> Contents] /\ setting' \in Settings /\ spoiled' \subseteq Names
  BY <1>now, <1>c, <1>d, <1>h DEF SpoiledByCopy
<1>copies. CopiesAreOfTheirFiles'
  <2>a. CopiesOf(f, originals, spoiled')
    BY <1>c, <1>e, <1>now, CopiesKeptBySave DEF f
  <2>b. n \in spoiled' \/ l.original \in {originals[n], f[n]}
    BY <1>h, <1>now DEF SpoiledByCopy
  <2> QED BY <1>c, <1>d, <1>f, <1>h, <1>i, <1>now, <2>a, <2>b, CopiesKept
         DEF CopiesAreOfTheirFiles
<1>o.  IInv'
  BY <1>now, <1>copies, <1>c, <1>d, <1>f, <1>i, <1>k, <1>l, <1>m, <1>n, PlaceInv
<1>p.  Careful
  <2>a. SUFFICES ASSUME ~ghost'.refused, NEW k \in Names
                 PROVE  /\ files[k] # Absent /\ files'[k] = Absent
                              => Holds(files[k], NoTargets)
                        /\ Old(files[k]) /\ files'[k] # files[k] /\ ~ghost'.blind
                              => originals'[k] = files[k] \/ k \in spoiled'
    BY DEF Careful
  <2>b. Sound
    BY <1>c, <1>l, <2>a DEF Sound
  <2>c. files'[n] = w.left /\ originals'[n] = l.original /\ w.left # Absent
    BY <1>now, <1>c, <1>d, <1>f, <1>m, <2>a
  <2>d. CASE k = n
    <3>a. Old(files[k]) => l.original \in {originals[n], f[n]} /\ l.original # Absent
      BY <1>f, <1>h, <1>l, <2>a, <2>d DEF Old
    <3>b. Old(files[k]) /\ n \notin spoiled' => originals[n] \in {Absent, f[n]}
      BY <1>c, <1>d, <1>f, <1>now, <2>d DEF CopiesOf
    <3> QED BY <1>f, <2>c, <2>d, <3>a, <3>b
  <2>e. CASE k = session.current
    <3>a. files'[k] = left.left
      BY <1>now, <1>d, <1>f, <2>e
    <3>b. ~Old(files[k])
      BY <2>b, <2>e DEF IInv, CurrentIsThere, Old
    <3> QED BY <1>e, <1>l, <2>a, <2>b, <2>e, <3>a, <3>b, ReadableIsThere
  <2>f. CASE k # n /\ k # session.current
    BY <1>now, <1>f, <2>f
  <2> QED BY <2>d, <2>e, <2>f
<1> QED BY <1>k, <1>o, <1>p

\* A reload of the current file.
LEMMA ReloadInv ==
    IInv /\ ReloadRoute => IInv' /\ Careful /\ session'.on /\ session'.createdEmpty = session.createdEmpty
<1> SUFFICES ASSUME IInv, ReloadRoute
             PROVE  IInv' /\ Careful /\ session'.on /\ session'.createdEmpty = session.createdEmpty
  OBVIOUS
<1> DEFINE n == session.current
           after(l, listed, w) ==
              /\ files' = [files EXCEPT ![n] = w.left]
              /\ originals' = [originals EXCEPT ![n] = l.original]
              /\ setting' = l.setting
              /\ session' = w.session
              /\ ghost' = [loaded |-> l.loaded, edited |-> FALSE,
                           refused |-> ghost.refused \/ ~(l.copied /\ l.kept /\ w.ok),
                           blind |-> ghost.blind \/ listed # RouteFilesOnCard(files)]
              /\ spoiled' = spoiled \cup SpoiledByCopy(n, l.copied)
<1>a. PICK R \in RescanRouteFiles(files) :
      \E l \in LoadTargetsFromFile([session EXCEPT !.routeFiles = R],
                                   files[n], originals[n], setting) :
      \E w \in SaveTargetsIfChanged(l.session, l.left) : after(l, R, w)
  BY DEF ReloadRoute
<1> DEFINE s == [session EXCEPT !.routeFiles = R]
<1>loaded. PICK l \in LoadTargetsFromFile(s, files[n], originals[n], setting) :
      \E w \in SaveTargetsIfChanged(l.session, l.left) : after(l, R, w)
  BY <1>a
<1>b. PICK w \in SaveTargetsIfChanged(l.session, l.left) : after(l, R, w)
  BY <1>loaded
<1>now. /\ files' = [files EXCEPT ![n] = w.left]
        /\ originals' = [originals EXCEPT ![n] = l.original]
        /\ setting' = l.setting /\ session' = w.session
        /\ spoiled' = spoiled \cup SpoiledByCopy(n, l.copied)
  BY <1>b
<1>c. /\ session.on /\ session \in Session /\ n \in Names
      /\ files \in [Names -> Contents] /\ originals \in [Names -> Contents]
      /\ files[n] \in Contents /\ originals[n] \in Contents
      /\ setting \in Settings /\ ghost \in Ghost /\ spoiled \subseteq Names
      /\ legacy' \in Contents /\ backups' \in [Names -> Contents]
      /\ CopiesOf(files, originals, spoiled)
  BY DEF ReloadRoute, IInv, TypeOK, Settings, Session, CopiesAreOfTheirFiles
<1>d. R \subseteq Names /\ R \subseteq RouteFilesOnCard(files)
  BY ScanResult
<1>e. /\ s \in Session /\ s.on /\ s.current = n /\ s.createdEmpty = session.createdEmpty
      /\ s.routeFiles = R
  BY <1>c, <1>d DEF Session
<1> HIDE DEF s
<1>f. /\ l.left \in Contents /\ l.original \in Contents /\ l.setting \in Settings
      /\ l.loaded \in BOOLEAN /\ l.copied \in BOOLEAN /\ l.kept \in BOOLEAN
      /\ l.loaded <=> files[n] \in Readable
      /\ l.copied => l.original \in {originals[n], files[n]}
  BY <1>c, <1>e, LoadResult
<1>g. /\ w.left \in Contents /\ w.session \in Session /\ w.ok \in BOOLEAN
      /\ w.session.on /\ w.session.current = n
      /\ w.session.routeFiles = R
      /\ w.session.createdEmpty = session.createdEmpty
      /\ l.loaded /\ l.kept => /\ w.left \in Readable /\ w.left.canonical
                               /\ w.session.lastSaved = w.session.targets
                               /\ Holds(w.left, w.session.lastSaved)
      /\ ~l.loaded /\ w.ok => \/ w.left = files[n]
                              \/ w.left \in Readable /\ w.left.canonical
      /\ Old(w.left) => w.left = files[n]
  BY <1>c, <1>e, ArriveResult
<1>h. /\ ghost' \in Ghost /\ ghost'.loaded = l.loaded
      /\ ~ghost'.refused => ~ghost.refused /\ l.copied /\ l.kept /\ w.ok
      /\ ~ghost'.blind => R = RouteFilesOnCard(files)
  BY <1>b, <1>c, <1>f, <1>g DEF Ghost
<1>i. ASSUME ~ghost'.refused
      PROVE  /\ files[n] # Absent
             /\ w.left # Absent /\ (w.left \in Readable => w.left.canonical)
             /\ ghost'.loaded => Holds(w.left, session'.lastSaved)
             /\ session'.createdEmpty =>
                    /\ ghost'.loaded
                    /\ session'.targets = NoTargets => session'.lastSaved = NoTargets
  <2>a. Sound
    BY <1>c, <1>h, <1>i DEF Sound
  <2>b. files[n] # Absent
    BY <2>a DEF IInv, CurrentIsThere
  <2>c. session.createdEmpty => files[n] \in Readable
    BY <2>a DEF IInv, CreatedIsSaved, LastSavedIsOnCard, Holds
  <2>d. CASE l.loaded
    <3>a. w.left # Absent
      BY <1>g, <1>h, <1>i, <2>d, ReadableIsThere
    <3> QED BY <1>b, <1>g, <1>h, <1>i, <2>b, <2>d, <3>a
  <2>e. CASE ~l.loaded
    <3>a. w.left # Absent /\ (w.left \in Readable => w.left.canonical)
      BY <1>f, <1>g, <1>h, <1>i, <2>b, <2>e, ReadableIsThere
    <3>b. ~session'.createdEmpty
      BY <1>b, <1>f, <1>g, <2>c, <2>e
    <3> QED BY <1>h, <2>b, <2>e, <3>a, <3>b
  <2> QED BY <1>f, <2>d, <2>e
<1>j.  originals' \in [Names -> Contents] /\ setting' \in Settings /\ spoiled' \subseteq Names
  BY <1>now, <1>c, <1>f DEF SpoiledByCopy
<1>copies. CopiesAreOfTheirFiles'
  <2>a. CopiesOf(files, originals, spoiled')
    BY <1>c, <1>now DEF CopiesOf
  <2>b. n \in spoiled' \/ l.original \in {originals[n], files[n]}
    BY <1>f, <1>now DEF SpoiledByCopy
  <2> QED BY <1>c, <1>f, <1>g, <1>now, <2>a, <2>b, CopiesKept DEF CopiesAreOfTheirFiles
<1>k.  IInv'
  BY <1>now, <1>copies, <1>c, <1>d, <1>g, <1>h, <1>i, <1>j, PlaceInv
<1>l.  Careful
  <2>a. SUFFICES ASSUME ~ghost'.refused, NEW k \in Names
                 PROVE  /\ files[k] # Absent /\ files'[k] = Absent
                              => Holds(files[k], NoTargets)
                        /\ Old(files[k]) /\ files'[k] # files[k] /\ ~ghost'.blind
                              => originals'[k] = files[k] \/ k \in spoiled'
    BY DEF Careful
  <2>b. Sound
    BY <1>c, <1>h, <2>a DEF Sound
  <2>c. files'[n] = w.left /\ w.left # Absent
    BY <1>b, <1>c, <1>i, <2>a
  <2>d. CASE k = n
    BY <2>b, <2>c, <2>d DEF IInv, CurrentIsThere, Old
  <2>e. CASE k # n
    BY <1>b, <1>c, <2>e
  <2> QED BY <2>d, <2>e
<1> QED BY <1>b, <1>g, <1>k, <1>l

\* A new route.
LEMMA CreateInv ==
    IInv /\ CreateNewRoute => /\ IInv' /\ Careful /\ session'.on
                              /\ ~ghost'.refused /\ ~ghost.blind => files[session'.current] = Absent
<1> SUFFICES ASSUME IInv, CreateNewRoute
             PROVE  /\ IInv' /\ Careful /\ session'.on
                    /\ ~ghost'.refused /\ ~ghost.blind => files[session'.current] = Absent
  OBVIOUS
<1> DEFINE n == NewName
           m == session.current
           after(f, c, p, old, listed, w) ==
              /\ files' = [f EXCEPT ![n] = w.left]
              /\ setting' = p.left
              /\ session' = [w.session EXCEPT !.routeFiles = listed, !.lastSetting = p.saved]
              /\ ghost' = [loaded |-> TRUE, edited |-> FALSE,
                           refused |-> ghost.refused \/ ~(old.ok /\ c.ok /\ w.ok),
                           blind |-> \/ ghost.blind
                                     \/ listed # RouteFilesOnCard([f EXCEPT ![n] = c.left])]
<1>a. PICK old \in SaveTargetsIfChanged(session, files[m]) :
      LET f == [files EXCEPT ![m] = old.left]
          s == [old.session EXCEPT !.current = n, !.targets = NoTargets,
                                   !.running = FALSE, !.createdEmpty = TRUE]
      IN  \E c \in SaveNewRoute(s, f[n]), p \in SaveRouteSettingIfChanged(s, setting) :
          \E listed \in RescanRouteFiles([f EXCEPT ![n] = c.left]),
             w \in SaveTargetsIfChanged(c.session, c.left) : after(f, c, p, old, listed, w)
  BY DEF CreateNewRoute
<1> HIDE DEF after
<1> DEFINE f == [files EXCEPT ![m] = old.left]
           s == [old.session EXCEPT !.current = n, !.targets = NoTargets,
                                    !.running = FALSE, !.createdEmpty = TRUE]
<1>b. PICK c \in SaveNewRoute(s, f[n]), p \in SaveRouteSettingIfChanged(s, setting) :
      \E listed \in RescanRouteFiles([f EXCEPT ![n] = c.left]),
         w \in SaveTargetsIfChanged(c.session, c.left) : after(f, c, p, old, listed, w)
  BY <1>a
<1>c. PICK R \in RescanRouteFiles([f EXCEPT ![n] = c.left]),
           w \in SaveTargetsIfChanged(c.session, c.left) : after(f, c, p, old, R, w)
  BY <1>b
<1>d. /\ session.on /\ session \in Session /\ n \in Names /\ m \in Names
      /\ session.routeFiles \subseteq Names
      /\ files \in [Names -> Contents] /\ files[m] \in Contents
      /\ setting \in Settings /\ ghost \in Ghost /\ originals' \in [Names -> Contents]
      /\ legacy' \in Contents /\ backups' \in [Names -> Contents]
      /\ originals' = originals /\ spoiled' = spoiled /\ spoiled \subseteq Names
      /\ CopiesOf(files, originals, spoiled)
  BY DEF CreateNewRoute, IInv, TypeOK, Settings, Session, CopiesAreOfTheirFiles
<1>e. n \notin session.routeFiles
  BY <1>d, NewNameIsNew
<1> HIDE DEF n
<1>f. /\ old.left \in Contents /\ old.ok \in BOOLEAN /\ old.session \in Session
      /\ SameButSaved(old.session, session)
      /\ old.ok => old.left = files[m] \/ old.left = SerializeTargets(session.targets)
      /\ Old(old.left) => old.left = files[m]
  BY <1>d, SaveIfChangedResult
<1>g. f \in [Names -> Contents] /\ f[n] \in Contents /\ (n # m => f[n] = files[n])
      /\ f[m] = old.left /\ \A k \in Names \ {m} : f[k] = files[k]
  BY <1>d, <1>f
<1> HIDE DEF f
<1>h. /\ s \in Session /\ s.on /\ s.current = n /\ s.createdEmpty
      /\ s.targets = NoTargets /\ [s EXCEPT !.lastSaved = Never] \in Session
      /\ [s EXCEPT !.lastSaved = Never].on /\ [s EXCEPT !.lastSaved = Never].current = n
      /\ [s EXCEPT !.lastSaved = Never].createdEmpty
      /\ [s EXCEPT !.lastSaved = Never].targets = NoTargets
  BY <1>d, <1>f, RouteFilesAssumption DEF Session, SameButSaved
<1> HIDE DEF s
<1>i. /\ c.left \in Contents /\ c.ok \in BOOLEAN /\ c.session \in Session
      /\ c.session.on /\ c.session.current = n /\ c.session.createdEmpty
      /\ c.session.targets = NoTargets
      /\ c.ok => /\ c.left = SerializeTargets(NoTargets)
                 /\ c.session.lastSaved = NoTargets
      /\ Old(c.left) => c.left = f[n]
  <2>a. c \in SaveTargetsToFile([s EXCEPT !.lastSaved = Never], f[n])
    BY DEF SaveNewRoute
  <2>b. /\ c.ok \in BOOLEAN /\ c.left \in Contents /\ c.session \in Session
        /\ SameButSaved(c.session, [s EXCEPT !.lastSaved = Never])
        /\ c.ok => /\ c.left = SerializeTargets([s EXCEPT !.lastSaved = Never].targets)
                   /\ c.session.lastSaved = [s EXCEPT !.lastSaved = Never].targets
        /\ Old(c.left) => c.left = f[n]
    BY <1>g, <1>h, <2>a, SaveToFileResult
  <2> QED BY <1>h, <2>b DEF SameButSaved
<1>j.  /\ w.left \in Contents /\ w.ok \in BOOLEAN /\ w.session \in Session
       /\ w.session.on /\ w.session.current = n
       /\ c.ok => w.left = c.left /\ w.session = c.session
       /\ Old(w.left) => w.left = c.left
  <2>a. /\ w.left \in Contents /\ w.ok \in BOOLEAN /\ w.session \in Session
        /\ SameButSaved(w.session, c.session)
        /\ c.session.lastSaved = c.session.targets
              => w.left = c.left /\ w.session = c.session
        /\ Old(w.left) => w.left = c.left
    BY <1>i, SaveIfChangedResult
  <2> QED BY <1>i, <2>a DEF SameButSaved
<1>k.  p.left \in Settings /\ p.saved \in Names \cup {Never}
  BY <1>d, <1>h, SettingResult
<1>l.  R \subseteq Names
  BY ScanResult
<1>now. files' = [f EXCEPT ![n] = w.left] /\ setting' = p.left
  BY <1>c DEF after
<1>m.  /\ session' \in Session /\ session'.on /\ session'.current = n
       /\ session'.routeFiles = R /\ session'.lastSaved = w.session.lastSaved
  BY <1>c, <1>j, <1>k, <1>l DEF Session, after
<1>n.  /\ ghost' \in Ghost /\ ghost'.loaded
       /\ ~ghost'.refused => ~ghost.refused /\ old.ok /\ c.ok
       /\ ~ghost'.blind => ~ghost.blind /\ R = RouteFilesOnCard([f EXCEPT ![n] = c.left])
  BY <1>c, <1>d, <1>f, <1>i, <1>j DEF Ghost, after
<1>o.  ~ghost'.refused /\ ~ghost.blind => files[n] = Absent /\ n # m
  BY <1>d, <1>e, <1>n DEF IInv, ListingIsDirectory, CurrentIsThere, RouteFilesOnCard, Sound
<1>p.  NoTargets \in Routes
  BY RouteFilesAssumption
<1>q.  ~ghost'.refused => /\ c.left # Absent /\ c.left.canonical
                          /\ Holds(c.left, session'.lastSaved)
                          /\ w.left = c.left /\ session'.lastSaved = NoTargets
  BY <1>i, <1>j, <1>m, <1>n, <1>p, SerializeIsReadable
<1> DEFINE g == [f EXCEPT ![n] = c.left]
<1>r.  g \in [Names -> Contents] /\ g[n] = c.left /\ files' = [g EXCEPT ![n] = w.left]
  BY <1>now, <1>d, <1>g, <1>i
<1>s.  R \subseteq RouteFilesOnCard(g) /\ (~ghost'.blind => R = RouteFilesOnCard(g))
  BY <1>n, ScanResult
<1>copies. CopiesAreOfTheirFiles'
  <2>a. CopiesOf(f, originals, spoiled)
    BY <1>d, <1>f, CopiesKeptBySave DEF f
  <2>b. Old(w.left) => w.left = f[n]
    BY <1>i, <1>j
  <2> QED BY <1>d, <1>g, <1>j, <1>now, <2>a, <2>b, CopiesKeptBySave DEF CopiesAreOfTheirFiles
<1> HIDE DEF g
<1>t.  IInv'
  <2>a. ~ghost'.refused =>
            /\ R \subseteq RouteFilesOnCard(g)
            /\ ~ghost'.blind => R = RouteFilesOnCard(g)
            /\ g[n] # Absent
            /\ w.left # Absent /\ (w.left \in Readable => w.left.canonical)
            /\ ghost'.loaded => Holds(w.left, session'.lastSaved)
            /\ session'.createdEmpty =>
                   /\ ghost'.loaded
                   /\ session'.targets = NoTargets => session'.lastSaved = NoTargets
    BY <1>n, <1>q, <1>r, <1>s
  <2>b. setting' \in Settings
    BY <1>now, <1>k
  <2> QED BY <1>copies, <1>d, <1>j, <1>m, <1>n, <1>r, <2>a, <2>b, PlaceInv
<1>u.  Careful
  <2>a. SUFFICES ASSUME ~ghost'.refused, NEW k \in Names
                 PROVE  /\ files[k] # Absent /\ files'[k] = Absent
                              => Holds(files[k], NoTargets)
                        /\ Old(files[k]) /\ files'[k] # files[k] /\ ~ghost'.blind
                              => originals'[k] = files[k] \/ k \in spoiled'
    BY DEF Careful
  <2>b. Sound
    BY <1>d, <1>n, <2>a DEF Sound
  <2>c. CASE k = n
    <3>a. files'[k] = w.left /\ w.left # Absent
      BY <1>d, <1>g, <1>now, <1>q, <2>a, <2>c
    <3>b. ~ghost'.blind => ~Old(files[k])
      BY <1>n, <1>o, <2>a, <2>c, ReadableIsThere DEF Old
    <3> QED BY <3>a, <3>b
  <2>d. CASE k = m /\ k # n
    <3>a. files'[k] = old.left
      BY <1>now, <1>g, <2>d
    <3>b. SerializeTargets(session.targets) # Absent
      BY <1>d, SerializeIsReadable DEF Session
    <3>c. ~Old(files[k])
      BY <2>b, <2>d DEF IInv, CurrentIsThere, Old
    <3> QED BY <1>f, <1>n, <2>a, <2>d, <3>a, <3>b, <3>c
  <2>e. CASE k # n /\ k # m
    BY <1>now, <1>g, <2>e
  <2> QED BY <2>c, <2>d, <2>e
<1> QED BY <1>m, <1>o, <1>t, <1>u

\* What a power cut finds on the card once the first file was written, or the route on
\* screen left.
LEMMA AtLoadResult ==
    ASSUME IInv, NEW scanned \in RescanRouteFiles(files), NEW f \in FilesAtLoad(scanned)
    PROVE  /\ f \in [Names -> Contents]
           /\ LoadedNext(scanned, f) \subseteq Names
           /\ SpoiledByFirst(f) \subseteq Names /\ spoiled \subseteq SpoiledByFirst(f)
           /\ session.on => CopiesOf(f, originals, spoiled)
           /\ ~session.on => CopiesOf(f, originals, SpoiledByFirst(f))
           /\ \A n \in Names : Old(files[n]) /\ f[n] # files[n] =>
                 \/ session.on /\ ghost.refused
                 \/ scanned # RouteFilesOnCard(files)
<1>a. /\ 0 \in Names /\ files \in [Names -> Contents] /\ spoiled \subseteq Names
      /\ session \in Session /\ session.current \in Names
      /\ CopiesOf(files, originals, spoiled)
  BY RouteFilesAssumption DEF IInv, TypeOK, Names, Session, CopiesAreOfTheirFiles
<1>b. SpoiledByFirst(f) \subseteq Names /\ spoiled \subseteq SpoiledByFirst(f)
  BY <1>a DEF SpoiledByFirst
<1>c. CASE session.on
  <2>a. PICK left \in LeaveRoute : f = [files EXCEPT ![session.current] = left.left]
    BY <1>c DEF FilesAtLoad
  <2>b. /\ left.left \in Contents /\ (Old(left.left) => left.left = files[session.current])
    BY <1>c, LeaveResult
  <2>c. LoadedNext(scanned, f) \subseteq Names
    BY <1>a, <1>c DEF LoadedNext, Session
  <2>d. CopiesOf(f, originals, spoiled)
    BY <1>a, <2>a, <2>b, CopiesKeptBySave
  <2>e. ~ghost.refused => ~Old(files[session.current])
    BY <1>c DEF IInv, CurrentIsThere, Sound, Old
  <2> QED BY <1>a, <1>b, <1>c, <2>a, <2>b, <2>c, <2>d, <2>e
<1>d. CASE ~session.on
  <2>a. PICK w \in FirstRouteFile(scanned) : f = [files EXCEPT ![0] = w.left]
    BY <1>d DEF FilesAtLoad
  <2>b. /\ w.left \in Contents
        /\ scanned = RouteFilesOnCard(files) /\ files[0] # Absent => w.left = files[0]
        /\ scanned # {} => scanned = RouteFilesOnCard(f)
    BY <2>a, FirstRouteFileResult
  <2>c. LoadedNext(scanned, f) \subseteq Names
    <3>a. \A listed \in ListedAtStart(scanned, f) : listed \subseteq Names
      BY <2>b, ScanResult DEF ListedAtStart, RouteFilesOnCard
    <3> QED BY <1>d, <3>a, ActiveRouteIsListed DEF LoadedNext
  <2>d. CopiesOf(f, originals, SpoiledByFirst(f))
    BY <2>a, <2>b, FirstCopies
  <2>e. ASSUME NEW n \in Names, Old(files[n]), f[n] # files[n]
        PROVE  scanned # RouteFilesOnCard(files)
    <3>a. n = 0 /\ files[0] # Absent
      BY <1>a, <2>a, <2>e, ReadableIsThere DEF Old
    <3> QED BY <1>a, <2>a, <2>b, <2>e, <3>a
  <2> QED BY <1>a, <1>b, <1>d, <2>a, <2>b, <2>c, <2>d, <2>e
<1> QED BY <1>c, <1>d

\* A cut in a migration: the copy is spoiled, or it is whole before the file is touched.
LEMMA CutInMigrationResult ==
    ASSUME IInv, NEW scanned \in RescanRouteFiles(files), CutInMigration(scanned)
    PROVE  /\ files' \in [Names -> Contents] /\ originals' \in [Names -> Contents]
           /\ setting' \in Settings /\ spoiled' \subseteq Names /\ backups' = backups
           /\ CopiesOf(files', originals', spoiled')
           /\ \A n \in Names : Old(files[n]) /\ files'[n] # files[n] =>
                 \/ originals'[n] = files[n] \/ n \in spoiled'
                 \/ session.on /\ ghost.refused
                 \/ scanned # RouteFilesOnCard(files)
<1> DEFINE less(f) == IF session.on THEN spoiled ELSE SpoiledByFirst(f)
<1>a. PICK f \in FilesAtLoad(scanned) : \E n \in LoadedNext(scanned, f), x \in CutShort :
        /\ f[n] \in Readable /\ ~f[n].canonical
        /\ \/ /\ originals[n] = Absent
              /\ originals' = [originals EXCEPT ![n] = x]
              /\ files' = f /\ setting' = setting
              /\ spoiled' = less(f) \cup {n}
           \/ \E o \in MigrationBackup(f[n], originals[n]) :
                 /\ originals' = [originals EXCEPT ![n] = o.left]
                 /\ \/ files' = f /\ setting' = x
                    \/ files' = [f EXCEPT ![n] = x] /\ setting' \in {setting, n}
                 /\ spoiled' = less(f) \cup SpoiledByCopy(n, o.ok)
  BY DEF CutInMigration
<1>b. PICK n \in LoadedNext(scanned, f), x \in CutShort :
        /\ f[n] \in Readable /\ ~f[n].canonical
        /\ \/ /\ originals[n] = Absent
              /\ originals' = [originals EXCEPT ![n] = x]
              /\ files' = f /\ setting' = setting
              /\ spoiled' = less(f) \cup {n}
           \/ \E o \in MigrationBackup(f[n], originals[n]) :
                 /\ originals' = [originals EXCEPT ![n] = o.left]
                 /\ \/ files' = f /\ setting' = x
                    \/ files' = [f EXCEPT ![n] = x] /\ setting' \in {setting, n}
                 /\ spoiled' = less(f) \cup SpoiledByCopy(n, o.ok)
  BY <1>a
<1>c. /\ originals \in [Names -> Contents] /\ setting \in Settings /\ spoiled \subseteq Names
      /\ x \in Contents /\ x \in Settings /\ ~Old(x)
  BY RouteFilesAssumption DEF IInv, TypeOK, CutShort, Contents, Settings, Old
<1>d. /\ f \in [Names -> Contents] /\ n \in Names /\ f[n] \in Contents
      /\ less(f) \subseteq Names /\ CopiesOf(f, originals, less(f))
      /\ \A k \in Names : Old(files[k]) /\ f[k] # files[k] =>
             \/ session.on /\ ghost.refused
             \/ scanned # RouteFilesOnCard(files)
  BY <1>c, AtLoadResult
<1> HIDE DEF less
<1>e. backups' = backups
  BY DEF CutInMigration
<1>f. CASE /\ originals[n] = Absent
           /\ originals' = [originals EXCEPT ![n] = x]
           /\ files' = f /\ setting' = setting
           /\ spoiled' = less(f) \cup {n}
  <2>a. originals' \in [Names -> Contents] /\ spoiled' \subseteq Names
    BY <1>c, <1>d, <1>f
  <2>b. CopiesOf(files', originals', spoiled')
    BY <1>c, <1>d, <1>f DEF CopiesOf
  <2> QED BY <1>c, <1>d, <1>e, <1>f, <2>a, <2>b
<1>g. ASSUME NEW o \in MigrationBackup(f[n], originals[n]),
             originals' = [originals EXCEPT ![n] = o.left],
             \/ files' = f /\ setting' = x
             \/ files' = [f EXCEPT ![n] = x] /\ setting' \in {setting, n},
             spoiled' = less(f) \cup SpoiledByCopy(n, o.ok)
      PROVE  /\ files' \in [Names -> Contents] /\ originals' \in [Names -> Contents]
             /\ setting' \in Settings /\ spoiled' \subseteq Names
             /\ CopiesOf(files', originals', spoiled')
             /\ \A k \in Names : Old(files[k]) /\ files'[k] # files[k] =>
                   \/ originals'[k] = files[k] \/ k \in spoiled'
                   \/ session.on /\ ghost.refused
                   \/ scanned # RouteFilesOnCard(files)
  <2>a. /\ o.left \in Contents /\ o.ok \in BOOLEAN
        /\ originals[n] # Absent => o.left = originals[n] /\ o.ok
        /\ originals[n] = Absent /\ o.ok => o.left = f[n]
    <3>a. CASE originals[n] # Absent
      <4>a. o = [left |-> originals[n], ok |-> TRUE]
        BY <3>a DEF MigrationBackup
      <4> QED BY <1>c, <1>d, <3>a, <4>a
    <3>b. CASE originals[n] = Absent
      <4>a. o \in WriteTargetsFile(originals[n], f[n])
        BY <1>b, <3>b DEF MigrationBackup
      <4> QED BY <1>d, <3>b, <4>a, WriteResult DEF Contents
    <3> QED BY <3>a, <3>b
  <2>b. files' \in [Names -> Contents] /\ setting' \in Settings
    BY <1>c, <1>d, <1>g DEF Settings
  <2>c. originals' \in [Names -> Contents] /\ spoiled' \subseteq Names
    BY <1>c, <1>d, <1>g, <2>a DEF SpoiledByCopy
  <2>d. CopiesOf(f, originals, spoiled')
    BY <1>d, <1>g DEF CopiesOf
  <2>e. n \in spoiled' \/ o.left \in {originals[n], f[n]}
    BY <1>g, <2>a DEF SpoiledByCopy
  <2>f. PICK c \in {x, f[n]} : files' = [f EXCEPT ![n] = c]
    BY <1>d, <1>g
  <2>g. CopiesOf(files', originals', spoiled')
    BY <1>c, <1>d, <1>g, <2>a, <2>d, <2>e, <2>f, CopiesKept
  <2>h. ASSUME NEW k \in Names, Old(files[k]), files'[k] # files[k], f[k] = files[k]
        PROVE  originals'[k] = files[k] \/ k \in spoiled'
    <3>a. k = n
      BY <1>d, <2>f, <2>h
    <3>b. n \notin spoiled' => originals[n] \in {Absent, f[n]}
      BY <1>d, <2>d, <2>h, <3>a DEF CopiesOf
    <3>c. n \in spoiled' \/ o.ok
      BY <1>g, <2>a DEF SpoiledByCopy
    <3> QED BY <1>c, <1>d, <1>g, <2>a, <2>h, <3>a, <3>b, <3>c
  <2> QED BY <1>d, <2>b, <2>c, <2>g, <2>h
<1> QED BY <1>b, <1>e, <1>f, <1>g

\* A cut: nothing is lost of a file with old names but beside its copy.
LEMMA CrashInv ==
    ASSUME IInv, Crash
    PROVE  /\ IInv'
           /\ \A n \in Names : Old(files[n]) /\ files'[n] # files[n] =>
                 \/ originals'[n] = files[n] \/ n \in spoiled'
                 \/ ghost'.refused \/ ghost'.blind
<1> DEFINE Kept == \A n \in Names : Old(files[n]) /\ files'[n] # files[n] =>
                      \/ originals'[n] = files[n] \/ n \in spoiled'
                      \/ ghost'.refused \/ ghost'.blind
<1>a. PICK scanned \in ScannedBeforeCut :
        /\ \/ CutInRouteFile(scanned) \/ CutInBackup
           \/ CutInMigration(scanned) \/ CutInSetting
        /\ ghost' = [NoGhost EXCEPT !.refused = session.on /\ ghost.refused,
                                    !.blind = \/ session.on /\ ghost.blind
                                              \/ scanned # RouteFilesOnCard(files)]
  BY DEF Crash
<1>b. /\ files \in [Names -> Contents] /\ backups \in [Names -> Contents]
      /\ originals \in [Names -> Contents] /\ setting \in Settings
      /\ spoiled \subseteq Names /\ CopiesOf(files, originals, spoiled)
      /\ legacy' \in Contents /\ session' = Off
      /\ session \in Session /\ ghost \in Ghost /\ 0 \in Names
  BY RouteFilesAssumption DEF IInv, TypeOK, Crash, Settings, CopiesAreOfTheirFiles, Names
<1>c. scanned \in RescanRouteFiles(files)
  BY <1>a DEF ScannedBeforeCut, RescanRouteFiles
<1>d. /\ ghost' \in Ghost
      /\ ghost'.refused = (session.on /\ ghost.refused)
      /\ ghost'.blind = ((session.on /\ ghost.blind) \/ scanned # RouteFilesOnCard(files))
  <2>a. ghost.refused \in BOOLEAN /\ ghost.blind \in BOOLEAN /\ session.on \in BOOLEAN
    BY <1>b DEF Ghost, Session
  <2> QED BY <1>a, <2>a DEF NoGhost, Ghost
<1>e. /\ CutShort \subseteq Contents /\ CutShort \subseteq Settings
      /\ \A x \in CutShort : ~Old(x)
  BY RouteFilesAssumption DEF CutShort, Contents, Settings, Old
<1>f. CASE CutInRouteFile(scanned)
  <2>a. PICK n \in Names, x \in CutShort :
          /\ \/ session.on /\ n = session.current /\ session.lastSaved # session.targets
             \/ session.on /\ n = NewName
             \/ ~session.on /\ n = 0 /\ scanned = {}
          /\ files' = [files EXCEPT ![n] = x]
    BY <1>f DEF CutInRouteFile
  <2>b. UNCHANGED <<backups, originals, setting, spoiled>>
    BY <1>f DEF CutInRouteFile
  <2>c. files' \in [Names -> Contents] /\ CopiesOf(files', originals', spoiled')
    BY <1>b, <1>e, <2>a, <2>b, CopiesKeptBySave
  <2>d. Old(files[n]) => ghost'.refused \/ ghost'.blind
    <3>a. CASE session.on /\ n = session.current
      BY <1>d, <3>a DEF IInv, CurrentIsThere, Sound, Old
    <3>b. CASE session.on /\ n = NewName
      <4>a. NewName \notin session.routeFiles
        BY <1>b, NewNameIsNew DEF Session
      <4>b. Old(files[n]) => n \in RouteFilesOnCard(files)
        BY ReadableIsThere DEF Old, RouteFilesOnCard
      <4> QED BY <1>d, <3>b, <4>a, <4>b DEF IInv, ListingIsDirectory, Sound
    <3>c. CASE ~session.on /\ n = 0 /\ scanned = {}
      <4>a. Old(files[n]) => n \in RouteFilesOnCard(files)
        BY ReadableIsThere DEF Old, RouteFilesOnCard
      <4> QED BY <1>d, <3>c, <4>a
    <3> QED BY <2>a, <3>a, <3>b, <3>c
  <2>e. Kept
    BY <1>b, <2>a, <2>d
  <2> QED BY <1>b, <1>d, <2>b, <2>c, <2>e, EndInv
<1>g. CASE CutInBackup
  BY <1>b, <1>d, <1>e, <1>g, EndInv DEF CutInBackup
<1>h. CASE CutInMigration(scanned)
  BY <1>b, <1>c, <1>d, <1>h, CutInMigrationResult, EndInv
<1>i. CASE CutInSetting
  BY <1>b, <1>d, <1>e, <1>i, EndInv DEF CutInSetting
<1> QED BY <1>a, <1>f, <1>g, <1>h, <1>i

\* A step keeps the invariant and is careful, unless it ends the session.
LEMMA NextInv ==
    IInv /\ [Next]_vars =>
        /\ IInv' /\ Careful
        /\ \/ session'.createdEmpty = session.createdEmpty
           \/ ~session'.createdEmpty
           \/ ~ghost'.refused /\ ~ghost.blind => files[session'.current] = Absent
        /\ Crash \/ session'.on \/ files' = files
<1> DEFINE Goal == /\ IInv' /\ Careful
                   /\ \/ session'.createdEmpty = session.createdEmpty
                      \/ ~session'.createdEmpty
                      \/ ~ghost'.refused /\ ~ghost.blind => files[session'.current] = Absent
                   /\ Crash \/ session'.on \/ files' = files
<1> SUFFICES ASSUME IInv, [Next]_vars PROVE Goal
  OBVIOUS
<1>a. CASE Initialize
  BY <1>a, InitializeInv
<1>b. CASE Quit
  <2>a. IInv'
    BY <1>b, EndInv, OffIsTyped DEF Quit, IInv, TypeOK, Settings, CopiesAreOfTheirFiles
  <2> QED BY <1>b, <2>a DEF Quit, Off, Careful
<1>c. CASE Update
  <2>a. PICK w \in SaveTargetsIfChanged(session, files[session.current]) :
            /\ files' = [files EXCEPT ![session.current] = w.left]
            /\ session' = w.session
            /\ ghost' = [ghost EXCEPT !.refused = @ \/ ~w.ok]
    BY <1>c DEF Update
  <2>b. session.on /\ session \in Session /\ ghost \in Ghost /\ files[session.current] \in Contents
    BY <1>c DEF Update, IInv, TypeOK, Session
  <2>c. w.ok \in BOOLEAN
    BY <2>b, SaveIfChangedResult
  <2>d. ghost' \in Ghost /\ ghost'.loaded = ghost.loaded /\ ghost'.blind = ghost.blind
        /\ ghost'.refused = (ghost.refused \/ ~w.ok)
    BY <2>a, <2>b, <2>c DEF Ghost
  <2> QED BY <1>c, <2>a, <2>b, <2>d, SaveInv DEF Update
<1>d. CASE UpdateTargetsBackup
  <2>a. PICK w \in WriteTargetsFile(backups[session.current],
                                    SerializeTargets(session.targets)) :
            backups' = [backups EXCEPT ![session.current] = w.left]
    BY <1>d DEF UpdateTargetsBackup
  <2>b. session.current \in Names /\ session.targets \in Routes /\ backups \in [Names -> Contents]
    BY DEF IInv, TypeOK, Session
  <2>c. w.left \in {SerializeTargets(session.targets), backups[session.current],
                    Absent, Unreadable}
    BY WriteResult
  <2>d. w.left \in Contents
    BY <2>b, <2>c, SerializeIsReadable DEF Contents
  <2>e. backups' \in [Names -> Contents]
    BY <2>a, <2>b, <2>d
  <2>f. Careful /\ session'.createdEmpty = session.createdEmpty
    BY <1>d DEF UpdateTargetsBackup, Careful
  <2> QED BY <1>d, <2>e, <2>f DEF UpdateTargetsBackup, IInv, TypeOK, OffIsOff, ListingIsDirectory,
                           CurrentIsThere, LastSavedIsOnCard, CreatedIsSaved, Sound, CopiesAreOfTheirFiles
<1>e. CASE RouteStartsOrEnds
  <2>a. /\ session' \in Session /\ session'.on = session.on
        /\ session'.current = session.current /\ session'.routeFiles = session.routeFiles
        /\ session'.targets = session.targets /\ session'.lastSaved = session.lastSaved
        /\ session'.createdEmpty = session.createdEmpty
    BY <1>e DEF RouteStartsOrEnds, IInv, TypeOK, Session
  <2>b. Careful
    BY <1>e DEF RouteStartsOrEnds, Careful
  <2> QED BY <1>e, <2>a, <2>b DEF RouteStartsOrEnds, IInv, TypeOK, OffIsOff, ListingIsDirectory,
                            CurrentIsThere, LastSavedIsOnCard, CreatedIsSaved, Sound, CopiesAreOfTheirFiles
<1>f. CASE RouteTakesTimes
  <2>a. /\ session' \in Session /\ session'.on = session.on /\ session.on
        /\ session'.current = session.current /\ session'.routeFiles = session.routeFiles
        /\ session'.targets # NoTargets /\ session'.lastSaved = session.lastSaved
        /\ session'.createdEmpty = session.createdEmpty
    BY <1>f DEF RouteTakesTimes, IInv, TypeOK, Session
  <2>b. Careful
    BY <1>f DEF RouteTakesTimes, Careful
  <2> QED BY <1>f, <2>a, <2>b DEF RouteTakesTimes, IInv, TypeOK, OffIsOff, ListingIsDirectory,
                            CurrentIsThere, LastSavedIsOnCard, CreatedIsSaved, Sound, CopiesAreOfTheirFiles
<1>g. CASE EditRoute
  <2>a. PICK route \in Routes :
        \E w \in SaveTargetsIfChanged([session EXCEPT !.targets = route],
                                      files[session.current]) :
            /\ files' = [files EXCEPT ![session.current] = w.left]
            /\ session' = w.session
            /\ ghost' = [ghost EXCEPT !.edited = TRUE, !.refused = @ \/ ~w.ok]
    BY <1>g DEF EditRoute
  <2> DEFINE s == [session EXCEPT !.targets = route]
  <2>b. PICK w \in SaveTargetsIfChanged(s, files[session.current]) :
            /\ files' = [files EXCEPT ![session.current] = w.left]
            /\ session' = w.session
            /\ ghost' = [ghost EXCEPT !.edited = TRUE, !.refused = @ \/ ~w.ok]
    BY <2>a
  <2>c. session.on /\ session \in Session /\ ghost \in Ghost /\ files[session.current] \in Contents
    BY <1>g DEF EditRoute, IInv, TypeOK, Session
  <2>d. /\ s \in Session /\ s.on /\ s.current = session.current
        /\ s.routeFiles = session.routeFiles /\ s.lastSaved = session.lastSaved
        /\ s.createdEmpty = session.createdEmpty
    BY <2>c DEF Session
  <2> HIDE DEF s
  <2>e. w.ok \in BOOLEAN
    BY <2>c, <2>d, SaveIfChangedResult
  <2>f. ghost' \in Ghost /\ ghost'.loaded = ghost.loaded /\ ghost'.blind = ghost.blind
        /\ ghost'.refused = (ghost.refused \/ ~w.ok)
    BY <2>b, <2>c, <2>e DEF Ghost
  <2> QED BY <1>g, <2>b, <2>c, <2>d, <2>f, SaveInv DEF EditRoute
<1>h. CASE SwitchRoute
  BY <1>h, SwitchInv
<1>i. CASE ReloadRoute
  BY <1>i, ReloadInv
<1>j.  CASE CreateNewRoute
  BY <1>j, CreateInv
<1>k.  CASE Crash
  BY <1>k, CrashInv DEF Crash, Off, Careful
<1>l.  CASE UNCHANGED vars
  BY <1>l DEF vars, Careful, IInv, TypeOK, OffIsOff, ListingIsDirectory, CurrentIsThere,
               LastSavedIsOnCard, CreatedIsSaved, Sound, Holds, RouteFilesOnCard,
               CopiesAreOfTheirFiles, CopiesOf
<1> QED BY <1>a, <1>b, <1>c, <1>d, <1>e, <1>f, <1>g, <1>h, <1>i, <1>j, <1>k, <1>l
       DEF Next, Frame, Window

LEMMA Invariance == Spec => []IInv
<1>a. IInv /\ [Next]_vars => IInv'
  BY NextInv
<1> QED BY <1>a, InitInv, PTL DEF Spec

----
\* The variables keep their types.
THEOREM TypeCorrect == Spec => []TypeOK
<1>a. IInv => TypeOK
  BY DEF IInv
<1> QED BY <1>a, Invariance, PTL

\* What counts as saved is on the card, unless the session saw a refused write.
THEOREM SavedIsOnCardHolds == Spec => []SavedIsOnCard
<1>a. IInv => SavedIsOnCard
  BY DEF IInv, LastSavedIsOnCard, SavedIsOnCard, Sound
<1> QED BY <1>a, Invariance, PTL


\* "+ New" takes a name no file has: only CreateNewRoute sets createdEmpty, and the
\* listing it counts from is the directory unless a scan failed.
THEOREM NewRouteIsFreshHolds == Spec => NewRouteIsFresh
<1>a. IInv /\ [Next]_vars =>
        [~session.createdEmpty /\ session'.createdEmpty /\ ~ghost'.refused /\ ~ghost.blind
            => files[session'.current] = Absent]_vars
  BY NextInv
<1> QED BY <1>a, Invariance, PTL DEF Spec, NewRouteIsFresh

\* Only a route that was created in this session and stayed empty is deleted.
THEOREM DeletesOnlyEmptyHolds == Spec => DeletesOnlyEmpty
<1>a. IInv /\ [Next]_vars =>
        [\A n \in Names :
            session'.on /\ ~ghost'.refused /\ files[n] # Absent
              /\ files'[n] = Absent
                => Holds(files[n], NoTargets)]_vars
  BY NextInv DEF Careful
<1> QED BY <1>a, Invariance, PTL DEF Spec, DeletesOnlyEmpty

\* A file with old names is rewritten, or cut short, only beside a whole copy of it, but
\* for the names whose copy a cut or a refusal spoiled.
THEOREM MigrationKeepsOriginalHolds == Spec => MigrationKeepsOriginal
<1>a. IInv /\ [Next]_vars =>
        [\A n \in Names :
            files[n] \in Readable /\ ~files[n].canonical /\ files'[n] # files[n]
                => \/ originals'[n] = files[n]
                   \/ n \in spoiled'
                   \/ ghost'.refused \/ ghost'.blind]_vars
  <2> SUFFICES ASSUME IInv, Next, NEW n \in Names, Old(files[n]), files'[n] # files[n],
                      ~ghost'.refused, ~ghost'.blind
               PROVE  originals'[n] = files[n] \/ n \in spoiled'
    BY DEF vars, Old
  <2>a. CASE Crash
    BY <2>a, CrashInv
  <2>b. CASE ~Crash
    <3>a. session'.on /\ Careful
      BY <2>b, NextInv
    <3> QED BY <3>a DEF Careful
  <2> QED BY <2>a, <2>b
<1> QED BY <1>a, Invariance, PTL DEF Spec, MigrationKeepsOriginal
====
