------------------------------- MODULE Reactions -------------------------------
(* src/xenomods/modules/ReactionControls.cpp: buttons that force a reaction on    *)
(* the character the player controls, on the next update of the module.           *)
EXTENDS Naturals, SceneTransition

CONSTANTS
    ReactionKind,       \* "Knockback", "Break" and the others
    Power               \* levels; the combo boxes choose one for the first two

ASSUME ReactionsAssumption == 1 \in Power /\ "None" \notin ReactionKind

VARIABLES
    PendingReaction,            \* NoReaction or [reaction, power]
    SelectedPower,              \* of the reactions that have a level
    controlled,                 \* game: what ControlledCharacter finds
    forced,                     \* game: what was done to the character last
    press                       \* history: the button pressed last, and since then?

reactionVars == <<PendingReaction, SelectedPower, controlled, forced, press, sceneTransition>>

Leveled == ReactionKind \cap {"Knockback", "Blowdown"}
NoReaction == [reaction |-> "None", power |-> 1]
Reaction == [reaction : ReactionKind, power : Power]
NoPress == [of |-> NoReaction, answered |-> TRUE, sceneLeft |-> FALSE]

\* A character that is on the field, or one that fights; a field character may have
\* no object, and a battle character no blow for a reaction.
ControlledKind == {"None", "Field", "FieldWithoutObject", "Battle", "BattleWithoutBlow"}

\* What the game was asked to do, in its order.
Calls == {<<>>, <<"notify">>, <<"SetAction">>, <<"SetBlow", "SetAction">>}

ReactionsTypeOK ==
    /\ SceneTransitionTypeOK
    /\ PendingReaction \in Reaction \cup {NoReaction}
    /\ SelectedPower \in [Leveled -> Power]
    /\ controlled \in ControlledKind
    /\ forced \in [calls : Calls, of : Reaction \cup {NoReaction}]
    /\ press \in [of : Reaction \cup {NoReaction}, answered : BOOLEAN, sceneLeft : BOOLEAN]

ReactionsInit ==
    /\ SceneTransitionInit
    /\ PendingReaction = NoReaction
    /\ SelectedPower = [kind \in Leveled |-> 1]
    /\ controlled = "None"
    /\ forced = [calls |-> <<>>, of |-> NoReaction]
    /\ press = NoPress

-------------------------------------------------------------------------------
\* MenuWindow, drawn in every frame, during transitions as well.
SelectPower ==
    /\ \E kind \in Leveled, power \in Power :
          SelectedPower' = [SelectedPower EXCEPT ![kind] = power]
    /\ UNCHANGED <<PendingReaction, controlled, forced, press, sceneTransition>>

ReactionButton(kind) ==
    LET power == IF kind \in Leveled THEN SelectedPower[kind] ELSE 1
        request == [reaction |-> kind, power |-> power]
    IN  /\ PendingReaction' = request
        /\ press' = [of |-> request, answered |-> FALSE, sceneLeft |-> FALSE]
        /\ UNCHANGED <<SelectedPower, controlled, forced, sceneTransition>>

\* ApplyFieldReaction, or the sequence of a battle after the game's own gates.
CallsFor(request) ==
    CASE controlled \in {"None", "FieldWithoutObject"} -> <<>>
      [] controlled = "Field" -> <<"notify">>
      [] controlled = "Battle" /\ request.reaction # "Break" -> <<"SetBlow", "SetAction">>
      [] OTHER -> <<"SetAction">>

Taken == NoReaction

\* ReactionControls::Update: the request is taken, whatever becomes of it.
ReactionsUpdate ==
    /\ ~IsSceneTransitionActive
    /\ PendingReaction # NoReaction
    /\ PendingReaction' = Taken
    /\ forced' = [calls |-> CallsFor(PendingReaction), of |-> PendingReaction]
    /\ press' = [press EXCEPT !.answered = TRUE]
    /\ UNCHANGED <<SelectedPower, controlled, sceneTransition>>

\* Mutant: a request outlives the scene.
PendingSurvives == UNCHANGED PendingReaction

\* OnSceneTransition.
DropPending == PendingReaction' = NoReaction

\* A map jump or a reload: only the first of them tells the modules.
SceneTransitionBegins ==
    /\ MapjumpArms \/ ReloadBegins
    /\ IF IsSceneTransitionActive
       THEN UNCHANGED <<PendingReaction, press>>
       ELSE DropPending /\ press' = [press EXCEPT !.sceneLeft = TRUE]
    /\ UNCHANGED <<SelectedPower, controlled, forced>>

ReactionsTransitionEnds ==
    /\ EndSceneTransition
    /\ UNCHANGED <<PendingReaction, SelectedPower, controlled, forced, press>>

CharacterChanges ==
    /\ controlled' \in ControlledKind
    /\ UNCHANGED <<PendingReaction, SelectedPower, forced, press, sceneTransition>>

ReactionsNext ==
    \/ SelectPower
    \/ \E kind \in ReactionKind : ReactionButton(kind)
    \/ ReactionsUpdate
    \/ SceneTransitionBegins
    \/ ReactionsTransitionEnds
    \/ CharacterChanges

ReactionsSpec == ReactionsInit /\ [][ReactionsNext]_reactionVars

-------------------------------------------------------------------------------
\* What waits to be forced is the last press, as long as it has not been answered and
\* the scene it was made in has not begun to go: none is forced twice, none is put
\* off until a character turns up, and none made in one scene is forced in another.
\* A press made while a transition runs, when the window is drawn and no update
\* is, belongs to no scene that could go; it is forced in the new one.
ForcedAsAsked ==
    PendingReaction = IF press.answered \/ press.sceneLeft THEN NoReaction ELSE press.of

================================================================================
