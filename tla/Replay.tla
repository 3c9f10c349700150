--------------------------------- MODULE Replay ---------------------------------
(***************************************************************************)
(* What the Menu Tool promises of a replay, without any of its machinery:  *)
(* a script is armed, runs while a menu is open, and puts out its actions  *)
(* one at a time, in order, none skipped and none repeated.  A replay may  *)
(* be stopped at any point, and sent back to its armed state to start over *)
(* (an Aux Core shop opens inside an ordinary shop).                       *)
(***************************************************************************)
EXTENDS Naturals, Sequences

CONSTANT Action

VARIABLES phase, script, out

replayVars == <<phase, script, out>>

Init ==
    /\ phase = "idle"
    /\ script = <<>>
    /\ out = <<>>

\* A new script replaces whatever was there; it runs at once when the menu
\* it is meant for is already open.
Arm ==
    /\ phase' \in {"armed", "running"}
    /\ script' \in Seq(Action)
    /\ out' = <<>>

Run ==
    /\ phase = "armed"
    /\ phase' = "running"
    /\ UNCHANGED <<script, out>>

Emit ==
    /\ phase = "running"
    /\ Len(out) < Len(script)
    /\ out' = Append(out, script[Len(out) + 1])
    /\ UNCHANGED <<phase, script>>

StartOver ==
    /\ phase = "running"
    /\ phase' = "armed"
    /\ out' = <<>>
    /\ UNCHANGED script

Stop ==
    /\ phase' = "idle"
    /\ script' = <<>>
    /\ out' = <<>>

Next ==
    \/ Arm
    \/ Run
    \/ Emit
    \/ StartOver
    \/ Stop

Spec == Init /\ [][Next]_replayVars

================================================================================
