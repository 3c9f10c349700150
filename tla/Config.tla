--------------------------------- MODULE Config ---------------------------------
(* Config: the settings of config.toml, a table whose section for the running     *)
(* game overrides it.  A setting is a single value or a list; a node of either    *)
(* may be missing or of another type than the setting.                            *)
EXTENDS Integers, Sequences

CONSTANTS
    Scalars,        \* single settings, the switches dumpFileReads and enableFileOverrides
    Lists,          \* list settings, bdatSkipOverrides among them
    Default,        \* the default of each setting
    NoNode,         \* no node in the table
    WrongType,      \* a node, or an element of a list, of another type
    NoTable         \* no section for the game; a file that is missing or does not parse

VARIABLE config

\* What InitializeFromTable makes of one node.
HasNode(node) == node # NoNode
value_or(node, default) == IF node \in {NoNode, WrongType} THEN default ELSE node
is_array(node) == node \notin {NoNode, WrongType}

\* The elements before the first that is of another type.
FirstElements(list) ==
    LET failed == {i \in DOMAIN list : list[i] = WrongType}
    IN IF failed = {} THEN list
       ELSE SubSeq(list, 1, (CHOOSE i \in failed : \A j \in failed : i <= j) - 1)

load_failed(list) == \E i \in DOMAIN list : list[i] = WrongType

\* A wrong type in the game's section gives the default, and a malformed list there
\* keeps the elements before the fault.
ScalarFrom(old, node, default, respectDefaults) ==
    IF respectDefaults \/ HasNode(node) THEN value_or(node, default) ELSE old

ListFrom(old, node, default, respectDefaults) ==
    IF ~is_array(node) THEN old
    ELSE IF load_failed(node) /\ respectDefaults THEN default ELSE FirstElements(node)

InitializeFrom(old, table, respectDefaults) ==
    [x \in Scalars \cup Lists |->
        IF x \in Scalars THEN ScalarFrom(old[x], table[x], Default[x], respectDefaults)
        ELSE ListFrom(old[x], table[x], Default[x], respectDefaults)]

\* Mutant: the section of the game is read first.
SectionFirst(old, file) ==
    InitializeFrom(IF file.game = NoTable THEN old ELSE InitializeFrom(old, file.game, FALSE),
                   file.global, TRUE)

InitializeFromTable(old, file) ==
    LET global == InitializeFrom(old, file.global, TRUE)
    IN IF file.game = NoTable THEN global ELSE InitializeFrom(global, file.game, FALSE)

ResetConfig == Default

\* The constructor of the state resets and loads; modules hear of it only when they
\* are initialized, which none is yet.
LoadConfig(file) ==
    config' = IF file = NoTable THEN ResetConfig ELSE InitializeFromTable(ResetConfig, file)

=================================================================================
