--------------------------------- MODULE Shell ---------------------------------
(* The frame of main.cpp around the modules: the pads are polled (HidInput.cpp),  *)
(* the combo opens and closes the menu (Menu.cpp) and with it the game's pad      *)
(* (FunctionalHooks.cpp), and the lines of the log are drawn (Logger.cpp,         *)
(* MenuLog.cpp).  What the modules do in a frame is in their own models; here     *)
(* they log.                                                                      *)
EXTENDS Integers, SequencesExt

CONSTANTS
    Buttons,            \* of the lower 16 bits
    Combo,              \* MENU_TOGGLE, a part of them
    Groups,             \* of toasts
    MAX_LINES,
    LINE_LIFETIME, TOAST_LIFETIME,      \* in frames of equal length
    MaxLog              \* bound: lines of the log window

ASSUME ShellAssumption ==
    /\ Combo \subseteq Buttons /\ Combo # {}
    /\ MAX_LINES \in Nat \ {0}
    /\ LINE_LIFETIME \in Nat \ {0} /\ TOAST_LIFETIME \in Nat \ {0}
    /\ MaxLog \in Nat

Player == {1, 2}

VARIABLES
    controllers,                \* player -> [stateCur, statePrev, padConnected]
    isOpen, logOpen,            \* of the menu
    gamePad,                    \* what the game's own pad holds
    loggingDisabled, showsInfo, \* SetLoggingLevel: Info lines are posted or not
    lines,                      \* lifetimes
    toastLines,                 \* [group, lifetime]
    log,                        \* lines of MenuLog
    owed                        \* history: players who toggled and have not let go

padVars == <<controllers, gamePad, owed>>
menuVars == <<isOpen, logOpen>>
logVars == <<loggingDisabled, showsInfo, lines, toastLines, log>>
shellVars == <<padVars, menuVars, logVars>>

Pad == [stateCur : SUBSET Buttons, statePrev : SUBSET Buttons, padConnected : BOOLEAN]
Toast == [group : Groups, lifetime : 0 .. TOAST_LIFETIME]

ShellTypeOK ==
    /\ controllers \in [Player -> Pad]
    /\ isOpen \in BOOLEAN /\ logOpen \in BOOLEAN
    /\ gamePad \in SUBSET Buttons
    /\ loggingDisabled \in BOOLEAN /\ showsInfo \in BOOLEAN
    /\ lines \in Seq(1 .. LINE_LIFETIME) /\ Len(lines) <= MAX_LINES
    /\ toastLines \in Seq(Toast) /\ Len(toastLines) <= MAX_LINES
    /\ log \in 0 .. MaxLog
    /\ owed \in SUBSET Player

ShellInit ==
    /\ controllers = [player \in Player |->
                        [stateCur |-> {}, statePrev |-> {}, padConnected |-> FALSE]]
    /\ isOpen = FALSE /\ logOpen = FALSE
    /\ gamePad = {}
    /\ loggingDisabled = TRUE /\ showsInfo \in BOOLEAN
    /\ lines = <<>> /\ toastLines = <<>>
    /\ log = 0
    /\ owed = {}

-------------------------------------------------------------------------------
(* HidInput. *)

\* What nn::hid tells of a pad: that none of a style we read is there, or what it
\* holds.
Unread == [connected |-> FALSE, held |-> {}]
Reading == {Unread} \cup [connected : {TRUE}, held : SUBSET Buttons]

\* Player 1's pad and, in handheld mode, the console's own.
Both(pad, handheld) ==
    [connected |-> pad.connected \/ handheld.connected, held |-> pad.held \cup handheld.held]

\* Mutant: a pad that is gone holds nothing.
PolledEmpty(controller, reading) ==
    [stateCur |-> reading.held, statePrev |-> controller.stateCur,
     padConnected |-> reading.connected]

\* Poll: a pad that is gone keeps what it held last.
Polled(controller, reading) ==
    [stateCur |-> IF reading.connected THEN reading.held ELSE controller.stateCur,
     statePrev |-> controller.stateCur, padConnected |-> reading.connected]

InputDownStrict(controller, combo) ==
    controller.stateCur = combo /\ controller.statePrev # combo

GetDebugInput(pads) == IF pads[2].padConnected THEN 2 ELSE 1

-------------------------------------------------------------------------------
(* Logger. *)

\* DrawMessages counts every line down and erases those that are over.
DrawnMessages == SelectSeq([i \in DOMAIN lines |-> lines[i] - 1], LAMBDA life : life > 0)

\* DrawToasts erases what is over only while log lines are left.
CountedToasts ==
    [i \in DOMAIN toastLines |->
        [toastLines[i] EXCEPT !.lifetime = IF @ > 0 THEN @ - 1 ELSE 0]]
DrawnToasts ==
    IF DrawnMessages = <<>> THEN CountedToasts
    ELSE SelectSeq(CountedToasts, LAMBDA toast : toast.lifetime > 0)

WithoutOldest(queue) == IF Len(queue) >= MAX_LINES THEN Tail(queue) ELSE queue

\* AddMessageInternal.
WithMessage == Append(WithoutOldest(lines), LINE_LIFETIME)

\* AddToastInternal makes room before it looks for the group's toast.
WithToast(group) ==
    LET room == WithoutOldest(toastLines)
        toast == [group |-> group, lifetime |-> TOAST_LIFETIME]
        same == {i \in DOMAIN room : room[i].group = group}
    IN  IF same = {} THEN Append(room, toast)
        ELSE [room EXCEPT ![CHOOSE i \in same : \A j \in same : i <= j] = toast]

\* VLogMessage and VToastMessage: the window's log takes every line.
LogInfo ==
    /\ ~loggingDisabled /\ log < MaxLog
    /\ log' = log + 1
    /\ lines' = IF showsInfo THEN WithMessage ELSE lines
    /\ UNCHANGED <<padVars, menuVars, loggingDisabled, showsInfo, toastLines>>

ToastInfo ==
    /\ ~loggingDisabled /\ log < MaxLog
    /\ log' = log + 1
    /\ \E group \in Groups : toastLines' = IF showsInfo THEN WithToast(group) ELSE toastLines
    /\ UNCHANGED <<padVars, menuVars, loggingDisabled, showsInfo, lines>>

-------------------------------------------------------------------------------
(* The menu, which is drawn while it is open. *)

\* Section_State.
SetLoggingDisabled ==
    /\ isOpen
    /\ loggingDisabled' = ~loggingDisabled
    /\ IF loggingDisabled THEN UNCHANGED <<lines, toastLines>>
       ELSE lines' = <<>> /\ toastLines' = <<>>
    /\ UNCHANGED <<padVars, menuVars, showsInfo, log>>

ToggleLog ==
    /\ isOpen
    /\ logOpen' = ~logOpen
    /\ UNCHANGED <<padVars, isOpen, logVars>>

\* MenuLog::Draw: the level, Clear and the cross that closes the window.  Saving
\* the log to a file logs a line itself, as LogInfo.
LogWindow ==
    /\ isOpen /\ logOpen
    /\ \/ showsInfo' = ~showsInfo /\ UNCHANGED <<log, logOpen>>
       \/ log' = 0 /\ UNCHANGED <<showsInfo, logOpen>>
       \/ logOpen' = FALSE /\ UNCHANGED <<log, showsInfo>>
    /\ UNCHANGED <<padVars, isOpen, loggingDisabled, lines, toastLines>>

-------------------------------------------------------------------------------
\* update of main.cpp.
MainUpdate(reading1, handheld, reading2) ==
    LET pads == [controllers EXCEPT ![1] = Polled(@, Both(reading1, handheld)),
                                    ![2] = Polled(@, reading2)]
        reads == <<Both(reading1, handheld), reading2>>
        debug == GetDebugInput(pads)
        toggles == InputDownStrict(pads[debug], Combo)
        letGo == {player \in Player :
                    reads[player].connected /\ reads[player].held # Combo}
    IN  /\ controllers' = pads
        /\ isOpen' = IF toggles THEN ~isOpen ELSE isOpen
        /\ owed' = (owed \ letGo) \cup (IF toggles THEN {debug} ELSE {})
        /\ lines' = DrawnMessages /\ toastLines' = DrawnToasts
        /\ UNCHANGED <<gamePad, logOpen, loggingDisabled, showsInfo, log>>

\* DevPadNx::Impl::updateNpad, which the open menu keeps from running unless there
\* is a second pad for it.
DisableControllerUpdatingForMenu ==
    /\ ~isOpen \/ controllers[2].padConnected
    /\ gamePad' \in SUBSET Buttons
    /\ UNCHANGED <<controllers, owed, menuVars, logVars>>

ShellNext ==
    \/ \E reading1, handheld, reading2 \in Reading : MainUpdate(reading1, handheld, reading2)
    \/ DisableControllerUpdatingForMenu
    \/ LogInfo
    \/ ToastInfo
    \/ SetLoggingDisabled
    \/ ToggleLog
    \/ LogWindow

ShellSpec == ShellInit /\ [][ShellNext]_shellVars

-------------------------------------------------------------------------------
\* A combo that stays held toggles the menu once: not again when the pad drops out
\* and comes back, nor when the other pad takes the menu over and gives it back.
\* A player toggles only after being seen to let go of the last toggle's combo.
ToggleNeedsRelease ==
    [][isOpen' # isOpen => GetDebugInput(controllers') \notin owed]_shellVars

================================================================================
