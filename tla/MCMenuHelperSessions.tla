------------------------- MODULE MCMenuHelperSessions -------------------------
(* Three instances of MenuHelper in one run.  An initial choice of session says *)
(* what is exercised: shop replays with a route's marker and scene transitions,  *)
(* recordings under the sandbox, or the amount widget of an aux core shop.       *)
EXTENDS MCMenuHelper

VARIABLE session

Shops == INSTANCE MenuHelper WITH
    Bit <- mcOneBit, LrButtonMask <- mcNone, EnabledMasks <- mcEnabled, Kind <- mcShop

Recordings == INSTANCE MenuHelper WITH
    Bit <- mcOneBit, LrButtonMask <- mcNone, EnabledMasks <- mcEnabled,
    Features <- mcSandboxFeatures, RecordingFiles <- mcNoFile, MaxActions <- 0,
    PadWords <- mcNeutral

AuxCores == INSTANCE MenuHelper WITH
    Kind <- mcShop, Features <- mcAuxFeatures, RecordingFiles <- mcAuxFile,
    PadWords <- mcNeutral

MCInit ==
    \/ session = "Shops" /\ Shops!Init
    \/ session = "Recordings" /\ Recordings!Init
    \/ session = "AuxCores" /\ AuxCores!Init

MCNext ==
    /\ UNCHANGED session
    /\ \/ session = "Shops" /\ Shops!Next
       \/ session = "Recordings" /\ Recordings!Next
       \/ session = "AuxCores" /\ AuxCores!Next

MCSpec == MCInit /\ [][MCNext]_<<vars, session>>

\* The fair run on the Menu and Travel kinds, with the constants of its own .cfg.
MCMenusInit == session = "Menus" /\ Init
MCMenusNext == UNCHANGED session /\ Next
MCMenusSpec == MCMenusInit /\ [][MCMenusNext]_<<vars, session>> /\ Fairness

================================================================================
