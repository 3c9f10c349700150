----------------------------- MODULE CombatAiDebug -----------------------------
(* src/xenomods/modules/CombatAiDebug.cpp: the tracer of Art decisions.  The     *)
(* hooks nest: the AI decides, an Art is started, and either may decide again.   *)
(* A decision notes which slots were recharged and since when, and which Art was *)
(* started in it, and goes into a ring when it returns.  The frame counter it    *)
(* measures with restarts with the map and by a button.                          *)
(*                                                                               *)
(* Of a slot's data only whether it is recharged is kept.  Who asked for the     *)
(* decision, its eligibility, names, raw fields and the counts of selections are *)
(* displayed only, and so are the load times kept by the frame counter.          *)
EXTENDS Integers, Sequences

CONSTANTS
    Character,          \* BattleCharacter objects
    NoCharacter,        \* the null character
    ArtSlot,            \* 0 .. 5 in the code
    MaxTracks,          \* 16 in the code
    AiHistoryCapacity,  \* 64 in the code
    MaxFrame,           \* bound: frames counted
    MaxCalls            \* bound: hooked calls within each other

ASSUME TracerAssumption ==
    /\ NoCharacter \notin Character
    /\ ArtSlot \subseteq Nat
    /\ MaxTracks \in Nat \ {0} /\ AiHistoryCapacity \in Nat \ {0}
    /\ MaxFrame \in Nat /\ MaxCalls \in Nat

NoSlot == -1
NoTrack == [character |-> NoCharacter, readySince |-> [s \in ArtSlot |-> 0]]

VARIABLES
    CaptureEnabled, FreezeHistory,
    FrameCounter,
    ReadyTracks,
    History, HistoryWrite, HistoryCount,
    calls,                  \* the hooked calls that have not returned
    ActiveDecision,         \* the call that ActiveDecision points to, 0 if none
    elapsed                 \* history: frames since a slot was first seen recharged

settings == <<CaptureEnabled, FreezeHistory>>
ring == <<History, HistoryWrite, HistoryCount>>
nesting == <<calls, ActiveDecision>>
tracerVars == <<settings, FrameCounter, ReadyTracks, ring, nesting, elapsed>>

-------------------------------------------------------------------------------
(* Decisions. *)

\* GetReadyTrack: the character's track, a free one, or the first, whoever had it.
TrackFor(character) ==
    LET of(c) == {t \in 1 .. MaxTracks : ReadyTracks[t].character = c}
        first(ts) == CHOOSE t \in ts : \A u \in ts : t <= u
    IN  IF of(character) # {} THEN first(of(character))
        ELSE IF of(NoCharacter) # {} THEN first(of(NoCharacter))
        ELSE 1

\* What GetArtsSlotData gives of a slot: it is recharged, or not, or there is none.
Reading == {"Recharged", "Recharging", "NoData"}

\* Mutant: a slot that is used goes on counting from its first recharge.
StaysReady(since, reading) ==
    IF reading = "Recharged" /\ since = 0 THEN FrameCounter ELSE since

\* SnapshotSlots: the frame a slot was first seen recharged, 0 for never; a slot
\* without data is passed over.
ReadySince(since, reading) ==
    IF reading = "Recharging" THEN 0
    ELSE IF reading = "Recharged" /\ since = 0 THEN FrameCounter
    ELSE since

Snapshot(character, readings) ==
    LET track == ReadyTracks[TrackFor(character)]
        since == IF track.character = character THEN track.readySince ELSE NoTrack.readySince
    IN  [s \in ArtSlot |-> ReadySince(since[s], readings[s])]

\* The decision's own copy, which a slot without data leaves at 0.
Observed(character, readings) ==
    [s \in ArtSlot |-> IF readings[s] = "NoData" THEN 0
                       ELSE Snapshot(character, readings)[s]]

NeverSeen == -1

\* The truth as the tracer can know it: a slot once seen recharged by a captured
\* decision stays so until a captured decision sees it otherwise.
Seen(character, readings) ==
    [s \in ArtSlot |-> IF readings[s] = "Recharging" THEN NeverSeen
                       ELSE IF readings[s] = "Recharged" /\ elapsed[character][s] = NeverSeen
                            THEN 0
                       ELSE elapsed[character][s]]

\* TraceAiArts up to the native call: captured decisions become the active one.
AiArtsBegins(character, readings) ==
    /\ Len(calls) < MaxCalls
    /\ IF CaptureEnabled
       THEN /\ elapsed' = [elapsed EXCEPT ![character] = Seen(character, readings)]
            /\ ReadyTracks' = [ReadyTracks EXCEPT ![TrackFor(character)] =
                    [character |-> character, readySince |-> Snapshot(character, readings)]]
            /\ calls' = Append(calls,
                   [call |-> "AiArts", character |-> character, frame |-> FrameCounter,
                    ready |-> Observed(character, readings),
                    truth |-> Seen(character, readings),
                    selectedSlot |-> NoSlot, previous |-> ActiveDecision])
            /\ ActiveDecision' = Len(calls')
       ELSE /\ calls' = Append(calls, [call |-> "Passed"])
            /\ UNCHANGED <<ReadyTracks, ActiveDecision, elapsed>>
    /\ UNCHANGED <<settings, FrameCounter, ring>>

\* The event a decision leaves.  A delay is measured if the slot was seen ready in
\* an earlier frame by the counter.
ReadyDelay(d) ==
    LET since == d.ready[d.selectedSlot]
    IN  IF since # 0 /\ d.frame >= since THEN d.frame - since ELSE 0

Event(d) ==
    [delay |-> IF d.selectedSlot = NoSlot THEN 0 ELSE ReadyDelay(d),
     truth |-> IF d.selectedSlot = NoSlot THEN NeverSeen ELSE d.truth[d.selectedSlot]]

\* PushHistory.
PushHistory(event) ==
    IF FreezeHistory
    THEN UNCHANGED ring
    ELSE /\ History' = [History EXCEPT ![HistoryWrite] = event]
         /\ HistoryWrite' = (HistoryWrite + 1) % AiHistoryCapacity
         /\ HistoryCount' = IF HistoryCount < AiHistoryCapacity THEN HistoryCount + 1
                            ELSE HistoryCount

Innermost == calls[Len(calls)]
Popped == SubSeq(calls, 1, Len(calls) - 1)
Returns(call) == calls # <<>> /\ Innermost.call = call /\ calls' = Popped

\* The decision that was active before.
Restored(d) == d.previous

AiArtsReturns ==
    /\ Returns("AiArts")
    /\ ActiveDecision' = Restored(Innermost)
    /\ PushHistory(Event(Innermost))
    /\ UNCHANGED <<settings, FrameCounter, ReadyTracks, elapsed>>

PassedReturns ==
    /\ Returns("Passed")
    /\ UNCHANGED <<settings, FrameCounter, ReadyTracks, ring, ActiveDecision, elapsed>>

\* TraceStartArts: what a decision starts for its own character it has selected.
StartArts(character, slot) ==
    /\ calls # <<>>
    /\ ActiveDecision # 0 /\ calls[ActiveDecision].character = character
    /\ calls' = [calls EXCEPT ![ActiveDecision].selectedSlot = slot]
    /\ UNCHANGED <<settings, FrameCounter, ReadyTracks, ring, ActiveDecision, elapsed>>

-------------------------------------------------------------------------------
(* Frames, maps and windows: never inside a hooked call. *)

Idle == calls = <<>>

EmptyRing == [i \in 0 .. AiHistoryCapacity - 1 |->
                 [delay |-> 0, truth |-> NeverSeen]]
NoTracks == [t \in 1 .. MaxTracks |-> NoTrack]
NoneSeen == [c \in Character |-> [s \in ArtSlot |-> NeverSeen]]

Update ==
    /\ Idle /\ FrameCounter < MaxFrame
    /\ \A c \in Character, s \in ArtSlot : elapsed[c][s] < 2 * MaxFrame
    /\ FrameCounter' = FrameCounter + 1
    /\ elapsed' = [c \in Character |-> [s \in ArtSlot |->
                      IF elapsed[c][s] = NeverSeen THEN NeverSeen ELSE elapsed[c][s] + 1]]
    /\ UNCHANGED <<settings, ReadyTracks, ring, nesting>>

ClearTracks == ReadyTracks' = NoTracks

\* ClearHistory.
ClearHistory ==
    /\ History' = EmptyRing /\ HistoryWrite' = 0 /\ HistoryCount' = 0
    /\ ClearTracks

\* "Clear" of the trace.
Clear == Idle /\ ClearHistory /\ UNCHANGED <<settings, FrameCounter, nesting, elapsed>>

\* OnMapChange: characters are new.
OnMapChange ==
    /\ Idle
    /\ FrameCounter' = 0
    /\ ClearHistory
    /\ elapsed' = NoneSeen
    /\ UNCHANGED <<settings, nesting>>

\* "Reset counter" of the frame counter: the tracks keep their frames.
ResetCounter ==
    /\ Idle
    /\ FrameCounter' = 0
    /\ UNCHANGED <<settings, ReadyTracks, ring, nesting, elapsed>>

\* The checkboxes, and the top bar, which switches the capture on.
Toggle ==
    /\ Idle
    /\ \/ CaptureEnabled' = ~CaptureEnabled /\ UNCHANGED FreezeHistory
       \/ FreezeHistory' = ~FreezeHistory /\ UNCHANGED CaptureEnabled
    /\ UNCHANGED <<FrameCounter, ReadyTracks, ring, nesting, elapsed>>

TracerInit ==
    /\ CaptureEnabled = FALSE /\ FreezeHistory = FALSE
    /\ FrameCounter = 0
    /\ ReadyTracks = NoTracks
    /\ History = EmptyRing /\ HistoryWrite = 0 /\ HistoryCount = 0
    /\ calls = <<>> /\ ActiveDecision = 0
    /\ elapsed = NoneSeen

Battle ==
    \E character \in Character :
        \/ \E readings \in [ArtSlot -> Reading] : AiArtsBegins(character, readings)
        \/ \E slot \in ArtSlot : StartArts(character, slot)

TracerNext ==
    \/ Battle \/ AiArtsReturns \/ PassedReturns
    \/ Update \/ OnMapChange
    \/ Clear \/ ResetCounter \/ Toggle

TracerSpec == TracerInit /\ [][TracerNext]_tracerVars

-------------------------------------------------------------------------------
(* Properties. *)

\* "Ready-to-use delay: ... game frames since first observed ready": through
\* evicted tracks, a counter set back, cleared histories and new maps, a listed
\* decision never shows more frames than passed since its slot was first seen
\* recharged.  (It may show fewer: see the README.)
DelayIsNotOverstated ==
    \A i \in 0 .. HistoryCount - 1 :
        History[i].delay > 0 => History[i].delay <= History[i].truth

================================================================================
