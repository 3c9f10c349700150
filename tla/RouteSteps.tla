------------------------------- MODULE RouteSteps -------------------------------
(* The steps of a Targeting route and the order of those of one map: where the  *)
(* window inserts a step and how it moves one.  A Target (Position) and the     *)
(* steps that follow it on its map form a block.                                *)
EXTENDS Integers, FiniteSets, SequencesExt

CONSTANTS
    Map,              \* map ids
    Place,            \* a finite set of integers, the points of the line
    Button            \* the buttons an Action presses

SpecialTypes == {"Delay", "Action", "Toggle", "ShopTas"}
MenuTasTypes == {"MenuTas", "TravelTas"}
TargetType == SpecialTypes \cup MenuTasTypes \cup {"Position"}

TargetData == [type : TargetType, mapId : Map, position : Place,
               frames : Nat, hold : Nat \ {0}, buttons : SUBSET Button,
               stick : BOOLEAN, buffered : BOOLEAN, enabled : BOOLEAN,
               intermediate : BOOLEAN]

IsMenuTasStep(target) == target.type \in MenuTasTypes
IsMovementTarget(target) ==
    target.type = "Position" \/ (IsMenuTasStep(target) /\ ~target.intermediate)

FirstOf(indices) == IF indices = {} THEN 0 ELSE Min(indices)
LastOf(indices) == IF indices = {} THEN 0 ELSE Max(indices)

OnMap(targets, map) == {i \in DOMAIN targets : targets[i].mapId = map}

\* The numbers of a set, up to last, in increasing order.
InOrder(indices, last) ==
    LET listed[n \in 0 .. last] ==
            IF n = 0 THEN <<>>
            ELSE IF n \in indices THEN Append(listed[n - 1], n) ELSE listed[n - 1]
    IN  listed[last]

\* The map's steps in order, and the map with its steps replaced one for one.
MapEntryIndices(targets, map) == InOrder(OnMap(targets, map), Len(targets))
MapEntries(targets, map) ==
    LET indices == MapEntryIndices(targets, map)
    IN  [k \in DOMAIN indices |-> targets[indices[k]]]
WithMapEntries(targets, map, entries) ==
    [i \in DOMAIN targets |->
        IF targets[i].mapId = map
        THEN entries[Cardinality({j \in OnMap(targets, map) : j <= i})]
        ELSE targets[i]]

\* Positions of a map's own sequence: the Target at or before k, the one after k.
Heads(entries) == {k \in DOMAIN entries : entries[k].type = "Position"}
BlockStart(entries, k) == LastOf({h \in Heads(entries) : h <= k})
NextBlock(entries, k) ==
    IF \E h \in Heads(entries) : h > k THEN Min({h \in Heads(entries) : h > k})
    ELSE Len(entries) + 1

--------------------------------------------------------------------------------
(* Insertion: a new Target goes behind the selected step's block, any other     *)
(* step behind the selected step; without a selection on the map, behind the    *)
(* map's last step.  The result is the index the new step takes.                *)

AfterLast(targets, map) ==
    IF OnMap(targets, map) = {} THEN Len(targets) + 1 ELSE Max(OnMap(targets, map)) + 1

InsertionIndexAfterTargetBlock(targets, map, selected) ==
    LET entries == MapEntries(targets, map)
        indices == MapEntryIndices(targets, map)
        k == CHOOSE n \in DOMAIN indices : indices[n] = selected
        next == IF BlockStart(entries, k) = 0 THEN k + 1 ELSE NextBlock(entries, k)
    IN  IF selected \in OnMap(targets, map) /\ next <= Len(indices)
        THEN indices[next] ELSE AfterLast(targets, map)

InsertionIndexAfterSelected(targets, map, selected) ==
    IF selected \in OnMap(targets, map) THEN selected + 1 ELSE AfterLast(targets, map)

Inserted(targets, step, selected) ==
    InsertAt(targets,
             IF step.type = "Position"
             THEN InsertionIndexAfterTargetBlock(targets, step.mapId, selected)
             ELSE InsertionIndexAfterSelected(targets, step.mapId, selected),
             step)

--------------------------------------------------------------------------------
(* Moves: a Target changes places with the neighbouring block, steps and all;   *)
(* any other step with its neighbour, unless that is a Target.                  *)

SwapBlocks(entries, first, middle, last) ==
    SubSeq(entries, 1, first - 1) \o SubSeq(entries, middle, last - 1)
        \o SubSeq(entries, first, middle - 1) \o SubSeq(entries, last, Len(entries))

MovedStep(entries, k, up) ==
    LET other == IF up THEN k - 1 ELSE k + 1
    IN  IF other \notin DOMAIN entries \/ entries[other].type = "Position" THEN entries
        ELSE [entries EXCEPT ![k] = entries[other], ![other] = entries[k]]

MovedBlock(entries, k, up) ==
    LET previous == LastOf({h \in Heads(entries) : h < k})
        end == NextBlock(entries, k)
    IN  IF up
        THEN IF previous = 0 THEN entries ELSE SwapBlocks(entries, previous, k, end)
        ELSE IF end > Len(entries) THEN entries
             ELSE SwapBlocks(entries, k, end, NextBlock(entries, end))

MoveTargetWithinMap(targets, i, up) ==
    LET map == targets[i].mapId
        entries == MapEntries(targets, map)
        k == Cardinality({j \in OnMap(targets, map) : j <= i})
    IN  WithMapEntries(targets, map,
            IF targets[i].type = "Position" THEN MovedBlock(entries, k, up)
                                            ELSE MovedStep(entries, k, up))

================================================================================
