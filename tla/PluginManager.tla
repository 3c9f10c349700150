----------------------------- MODULE PluginManager -----------------------------
(* Manager::LoadPluginsImpl: the files of the plugin directory are read, hashed   *)
(* and registered with ro as one list of hashes, loaded, and their mains run.     *)
(* A file may fail at each step.  The list m_pluginInfos is kept \o rest, and     *)
(* the iterator stands between the two.                                           *)
EXTENDS Integers, Sequences, FiniteSets

CONSTANTS
    Paths,          \* files a plugin directory may hold
    Digests,        \* what a file may hold, by its SHA-256
    MaxFiles,       \* bound: files in the directory
    NoNrr           \* no registration

ASSUME PluginAssumption ==
    /\ MaxFiles \in Nat
    /\ NoNrr \notin [num_hashes : Nat, hashes : SUBSET Digests]

VARIABLES
    stage,          \* "Walk", "Open", "Load", "Run" or "Done"
    kept, rest,     \* plugins, as [path, hash]
    sortedHashes,
    nrr,            \* [num_hashes, hashes], or NoNrr
    ran             \* history: plugins whose main has been called

pluginVars == <<stage, kept, rest, sortedHashes, nrr, ran>>

Plugin == [path : Paths, hash : Digests]

PluginInit ==
    /\ stage = "Walk"
    /\ kept = <<>> /\ rest = <<>> /\ sortedHashes = {} /\ nrr = NoNrr
    /\ ran = <<>>

\* Back to the front of the list.
Rewind(next) == stage' = next /\ rest' = kept /\ kept' = <<>>

Keep == kept' = Append(kept, Head(rest)) /\ rest' = Tail(rest)
Erase == kept' = kept /\ rest' = Tail(rest)

-------------------------------------------------------------------------------
\* walkDirectory comes upon every file once, in the card's order.
walkDirectory(found) ==
    /\ stage = "Walk"
    /\ stage' = IF found = <<>> THEN "Done" ELSE "Open"
    /\ rest' = found
    /\ UNCHANGED <<kept, sortedHashes, nrr, ran>>

\* The file does not open, has no size, does not read, or is no NRO.
SkipFile ==
    /\ stage = "Open" /\ rest # <<>>
    /\ Erase
    /\ UNCHANGED <<stage, sortedHashes, nrr, ran>>

\* Mutant: a plugin that is there already is not taken off the list.
KeepDuplicate == Keep

DropDuplicate == Erase

TrackFile ==
    /\ stage = "Open" /\ rest # <<>>
    /\ IF Head(rest).hash \in sortedHashes THEN DropDuplicate ELSE Keep
    /\ sortedHashes' = sortedHashes \cup {Head(rest).hash}
    /\ UNCHANGED <<stage, nrr, ran>>

\* nn::ro::RegisterModuleInfo takes the NRR or refuses it.
RegisterModuleInfo(accepted) ==
    /\ stage = "Open" /\ rest = <<>>
    /\ IF accepted
       THEN /\ nrr' = [num_hashes |-> Len(kept), hashes |-> sortedHashes]
            /\ Rewind("Load")
       ELSE /\ nrr' = NoNrr
            /\ stage' = "Done" /\ kept' = <<>> /\ rest' = <<>>
    /\ UNCHANGED <<sortedHashes, ran>>

\* A module that does not load is erased; its hash stays registered.
LoadModule(loads) ==
    /\ stage = "Load" /\ rest # <<>>
    /\ IF loads THEN Keep ELSE Erase
    /\ UNCHANGED <<stage, sortedHashes, nrr, ran>>

AllLoaded ==
    /\ stage = "Load" /\ rest = <<>>
    /\ Rewind("Run")
    /\ UNCHANGED <<sortedHashes, nrr, ran>>

\* A plugin without a main stays loaded.
RunMain(hasMain) ==
    /\ stage = "Run" /\ rest # <<>>
    /\ Keep
    /\ ran' = IF hasMain THEN Append(ran, Head(rest)) ELSE ran
    /\ UNCHANGED <<stage, sortedHashes, nrr>>

AllRun ==
    /\ stage = "Run" /\ rest = <<>>
    /\ stage' = "Done"
    /\ UNCHANGED <<kept, rest, sortedHashes, nrr, ran>>

Directories ==
    {found \in UNION {[1 .. n -> Plugin] : n \in 0 .. MaxFiles} :
        \A i, j \in DOMAIN found : found[i].path = found[j].path => i = j}

PluginNext ==
    \/ \E found \in Directories : walkDirectory(found)
    \/ SkipFile
    \/ TrackFile
    \/ \E accepted \in BOOLEAN : RegisterModuleInfo(accepted)
    \/ \E loads \in BOOLEAN : LoadModule(loads)
    \/ AllLoaded
    \/ \E hasMain \in BOOLEAN : RunMain(hasMain)
    \/ AllRun

PluginSpec == PluginInit /\ [][PluginNext]_pluginVars

-------------------------------------------------------------------------------
\* ro takes as many hashes from the NRR as its header counts: it counts those that
\* were written, although the count is taken from the list of files and the hashes
\* from the set.  No main is called twice, whatever copies of it lie on the card,
\* and none whose hash was not registered.
EachContentRunsOnce ==
    /\ nrr # NoNrr => nrr.num_hashes = Cardinality(nrr.hashes)
    /\ \A i, j \in DOMAIN ran : ran[i].hash = ran[j].hash => i = j
    /\ \A i \in DOMAIN ran : nrr # NoNrr /\ ran[i].hash \in nrr.hashes

===============================================================================
