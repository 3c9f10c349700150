----------------------------- MODULE MCInputBuffer -----------------------------
(* Small instances of InputBufferClients for TLC.  An initial choice of session  *)
(* says which clients are at work: those that offer actions to the layers, whose *)
(* updates run within each other, or those that read the pads and follow the    *)
(* manager's layers.                                                            *)
EXTENDS InputBufferClients

\* One navigation bit and one ordinary bit.
mcBit == {"A", "Down"}
mcDirections == {"Down"}
mcNone == {}
mcRelayTypes == {2}
mcHandles == {1, 2}
mcObjects == {1}
mcObjectOf == [layer \in Layer |-> 1]
mcPadWords == {{}, {"A"}}
mcEnabled == {{}, {"A"}}
mcA == {{"A"}}

mcOneUpdate == 1
mcOffers == {"playback", "scripted", "autoUi"}
mcPads == {"manager", "buttons", "capture", "playback", "scripted"}

mcReplay == {UiPadAction({"A"}, 1), UiPadAction({"Down"}, 2)}
mcReplayOne == {UiPadAction({"A"}, 1)}

VARIABLE session

Pads == INSTANCE InputBufferClients WITH
            Clients <- mcPads, PlaybackActions <- mcReplayOne, MaxNesting <- mcOneUpdate

MCInit ==
    \/ session = "Offers" /\ Init
    \/ session = "Pads" /\ Pads!Init

MCNext ==
    /\ UNCHANGED session
    /\ \/ session = "Offers" /\ Next
       \/ session = "Pads" /\ Pads!Next

MCSpec == MCInit /\ [][MCNext]_<<vars, session>>

================================================================================
