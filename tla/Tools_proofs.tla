---- MODULE Tools_proofs ----
(* The tools that stand alone.  Enabled music is not left silent; the preset on *)
(* the card is the queue in memory, and a pull is used up by the Blade it names; *)
(* the tracer states no delay longer than the true one; a trace that dropped     *)
(* nothing ends with what was seen last; the files hold what each module saved;  *)
(* trigger models have one owner, and a tutorial serves one visit; a forced      *)
(* handover belongs to the opening that armed it.                                *)
EXTENDS AudioControls, BladePulls, CombatAiDebug, InputTraces, SkipTravelProfiler,
        ToolSettings, TriggerVisualizer, WellFoundedInduction, TLAPS

\* Every set of natural numbers but the empty one has a least member: the numbers
\* are well founded.
LEMMA LeastNatural ==
  ASSUME NEW T, T \subseteq Nat, T # {}
  PROVE  \E x \in T : \A y \in T : x <= y
  <1> DEFINE R == OpToRel(<, Nat)
  <1>a. IsWellFoundedOn(R, Nat)
    BY NatLessThanWellFounded
  <1>b. \A x, y \in Nat : <<y, x>> \in R <=> y < x
    BY DEF OpToRel
  <1> HIDE DEF R
  <1>c. PICK x \in T : \A y \in T : ~(<<y, x>> \in R)
    BY <1>a, WFMin
  <1>d. \A y \in T : ~(y < x)
    BY <1>b, <1>c, Zenon
  <1> QED
    BY <1>d

----
(* Background music. *)

\* Zeros of this instance's mute are zeros still, and the switch knows; those of an
\* instance before it have left no levels to give back.
SilenceInv ==
    /\ silencedBy = "Us" => Muted /\ volume = AllSilent
    /\ silencedBy = "Before" => volume = AllSilent /\ SavedVolume \in {AllFull, AllSilent}

\* Silence that enabled music has suffered is counted: by EnabledSilentFrames while
\* the enabled state counts as applied, by CandidateStableFrames on a sound that is
\* not known to be ready.
CountInv ==
    /\ EnabledSilentFrames \in 0 .. SilentRecoveryFrames - 1
    /\ CandidateStableFrames \in Nat
    /\ silentFor \in Nat
    /\ LastMasterVolume \in {NoSound, ReadyGfSound}
    /\ AppliedHere => silentFor <= EnabledSilentFrames
    /\ sound = NoSound => silentFor = 0
    /\ sound \notin {NoSound, ReadyGfSound} /\ sound = CandidateGfSound =>
           silentFor <= CandidateStableFrames
    /\ sound \notin {NoSound, ReadyGfSound, CandidateGfSound} => silentFor = 0
    /\ SilenceIsRecovered

LEMMA FullIsAudible == AllFull # AllSilent /\ RestoredVolumes # AllSilent
  <1>a. PICK bgm \in Bgm : TRUE
    BY AudioAssumption
  <1>b. AllFull[bgm] # AllSilent[bgm]
    BY <1>a, AudioAssumption DEF AllFull, AllSilent
  <1> QED
    BY <1>b DEF RestoredVolumes

LEMMA SilenceStep == SilenceInv /\ [AudioNext]_audioVars => SilenceInv'
  <1> SUFFICES ASSUME SilenceInv, [AudioNext]_audioVars PROVE SilenceInv'
    OBVIOUS
  <1>a. CASE GameCreatesSound \/ GfSoundSetupGameHook
    BY <1>a DEF GameCreatesSound, GfSoundSetupGameHook, SilenceInv
  <1>b. CASE GameOptionChanged \/ GameLoadRewritesVolumes
    <2>a. SilenceAfterGame /\ UNCHANGED switchVars
      BY <1>b DEF GameOptionChanged, GameLoadRewritesVolumes
    <2> QED
      BY <2>a DEF SilenceAfterGame, SilenceInv, switchVars
  <1>c. CASE GameDestroysSound \/ UpdateWithoutSound \/ UpdateWaits \/ AudioOnMapChange
             \/ ToggleBackgroundMusic \/ SaveStateIfChanged \/ UNCHANGED audioVars
    BY <1>c DEF GameDestroysSound, UpdateWithoutSound, UpdateWaits, AudioOnMapChange,
                ToggleBackgroundMusic, SaveStateIfChanged, audioVars, switchVars, soundVars,
                heardVars, SilenceInv
  <1>d. CASE UpdateReady
    <2>a. CASE BackgroundMusic
      <3>a. /\ volume' = RestoredVolumes \/ UNCHANGED volume
            /\ Muted => volume' = RestoredVolumes
            /\ silencedBy' = IF volume' = volume THEN silencedBy ELSE "NoOne"
            /\ UNCHANGED SavedVolume
        BY <1>d, <2>a DEF UpdateReady, KeepAudible, AppliesLevels
      <3> QED
        BY <3>a, FullIsAudible DEF SilenceInv
    <2>b. CASE ~BackgroundMusic
      <3>a. HoldSilence
        BY <1>d, <2>b DEF UpdateReady
      <3>b. /\ Muted' /\ volume' = AllSilent
            /\ silencedBy' = IF volume # AllSilent THEN "Us" ELSE silencedBy
            /\ SavedVolume' \in {volume, SavedVolume}
        BY <3>a DEF HoldSilence, SavesLevels
      <3> QED
        BY <3>b DEF SilenceInv
    <2> QED
      BY <2>a, <2>b
  <1>e. CASE ReloadPlugin
    BY <1>e DEF ReloadPlugin, SilenceInv, soundVars
  <1> QED
    BY <1>a, <1>b, <1>c, <1>d, <1>e DEF AudioNext, AudioGame, AudioUpdate

\* An update that keeps enabled music audible ends the silence, or counts it.
LEMMA KeepAudibleCounts ==
  ASSUME CountInv, sound # NoSound, LastMasterVolume' = sound, ReadyGfSound' = sound,
         CandidateStableFrames' \in Nat, UNCHANGED sound, KeepAudible
  PROVE  CountInv'
  <1> DEFINE silentFrames == IF volume = AllSilent THEN SilentFramesHere + 1 ELSE 0
  <1>a. /\ IF AppliesLevels(silentFrames)
           THEN volume' = RestoredVolumes /\ EnabledSilentFrames' = 0
           ELSE EnabledSilentFrames' = silentFrames /\ UNCHANGED volume
        /\ silentFor' = IF volume' # AllSilent THEN 0
                        ELSE IF silentFor < SilentRecoveryFrames THEN silentFor + 1
                        ELSE silentFor
    BY DEF KeepAudible
  <1>b. SilentRecoveryFrames \in Nat \ {0} /\ SilentFramesHere \in 0 .. SilentRecoveryFrames - 1
    BY AudioAssumption DEF CountInv, SilentFramesHere
  <1>c. /\ EnabledSilentFrames' \in 0 .. SilentRecoveryFrames - 1
        /\ silentFor' \in Nat /\ silentFor' <= EnabledSilentFrames'
    <2>a. CASE AppliesLevels(silentFrames)
      BY <1>a, <1>b, <2>a, FullIsAudible
    <2>b. CASE ~AppliesLevels(silentFrames)
      <3>a. AppliedHere /\ silentFrames < SilentRecoveryFrames
        BY <1>b, <2>b DEF AppliesLevels
      <3>b. /\ SilentFramesHere = EnabledSilentFrames /\ silentFor \in Nat
            /\ silentFor <= EnabledSilentFrames
        BY <3>a DEF AppliedHere, SilentFramesHere, CountInv
      <3>c. EnabledSilentFrames' = silentFrames /\ volume' = volume
        BY <1>a, <2>b
      <3>d. CASE volume = AllSilent
        BY <1>a, <1>b, <3>a, <3>b, <3>c, <3>d
      <3>e. CASE volume # AllSilent
        BY <1>a, <1>b, <3>c, <3>e
      <3> QED
        BY <3>d, <3>e
    <2> QED
      BY <2>a, <2>b
  <1>d. silentFor' < SilentRecoveryFrames
    BY <1>b, <1>c
  <1> QED
    BY <1>c, <1>d DEF CountInv, SilenceIsRecovered, AppliedHere

\* An update on a sound not known to be ready counts it stable once more.
LEMMA WaitingCounts ==
  ASSUME CountInv, UpdateWaits
  PROVE  CountInv'
  <1>a. /\ sound \notin {NoSound, ReadyGfSound} /\ CandidateGfSound' = sound
        /\ CandidateStableFrames' = StableFrames /\ StableFrames < ExistingSoundReadyFrames
        /\ silentFor' = IF BackgroundMusic /\ volume = AllSilent THEN silentFor + 1 ELSE 0
        /\ UNCHANGED <<ReadyGfSound, LastMasterVolume, EnabledSilentFrames,
                       EnabledStateAppliedForMaster, sound>>
    BY DEF UpdateWaits, enabledVars, soundVars
  <1>b. LastMasterVolume # sound
    BY <1>a DEF CountInv
  <1>c. StableFrames \in Nat /\ silentFor' \in Nat /\ silentFor' <= StableFrames
    <2>a. CASE sound = CandidateGfSound
      BY <1>a, <2>a DEF StableFrames, CountInv
    <2>b. CASE sound # CandidateGfSound
      BY <1>a, <2>b DEF StableFrames, CountInv
    <2> QED
      BY <2>a, <2>b
  <1>d. silentFor' < ExistingSoundReadyFrames
    BY <1>a, <1>c, AudioAssumption
  <1> QED
    BY <1>a, <1>b, <1>c, <1>d DEF CountInv, SilenceIsRecovered, AppliedHere

LEMMA CountStep == CountInv /\ [AudioNext]_audioVars => CountInv'
  <1> SUFFICES ASSUME CountInv, [AudioNext]_audioVars PROVE CountInv'
    OBVIOUS
  <1> USE AudioAssumption
  <1>a. CASE GameCreatesSound
    <2>a. /\ sound = NoSound
          /\ UNCHANGED <<readyVars, enabledVars, silentFor>>
      BY <1>a DEF GameCreatesSound
    <2>b. silentFor' = 0
      BY <2>a DEF CountInv
    <2> QED
      BY <2>a, <2>b DEF CountInv, AppliedHere, SilenceIsRecovered, readyVars, enabledVars
  <1>b. CASE GameDestroysSound
    <2>a. /\ sound' = NoSound /\ silentFor' = 0
          /\ UNCHANGED <<readyVars, enabledVars>>
      BY <1>b DEF GameDestroysSound
    <2> QED
      BY <2>a DEF CountInv, AppliedHere, SilenceIsRecovered, readyVars, enabledVars
  <1>c. CASE GfSoundSetupGameHook
    <2>a. /\ sound # NoSound /\ ReadyGfSound' = sound /\ LastMasterVolume' = NoSound
          /\ ~EnabledStateAppliedForMaster' /\ EnabledSilentFrames' = 0
          /\ CandidateStableFrames' = ExistingSoundReadyFrames
          /\ UNCHANGED <<sound, silentFor>>
      BY <1>c DEF GfSoundSetupGameHook, InvalidateEnabledState
    <2> QED
      BY <2>a DEF CountInv, AppliedHere, SilenceIsRecovered
  <1>d. CASE GameOptionChanged \/ GameLoadRewritesVolumes \/ ToggleBackgroundMusic
             \/ SaveStateIfChanged \/ UNCHANGED audioVars
    <2>a. UNCHANGED <<readyVars, enabledVars, sound, silentFor>>
      BY <1>d DEF GameOptionChanged, GameLoadRewritesVolumes, ToggleBackgroundMusic,
                  SaveStateIfChanged, audioVars, soundVars, heardVars
    <2> QED
      BY <2>a DEF CountInv, AppliedHere, SilenceIsRecovered, readyVars, enabledVars
  <1>e. CASE AudioOnMapChange
    <2>a. /\ ~EnabledStateAppliedForMaster' /\ EnabledSilentFrames' = 0
          /\ UNCHANGED <<readyVars, sound, silentFor>>
      BY <1>e DEF AudioOnMapChange, InvalidateEnabledState, soundVars
    <2> QED
      BY <2>a DEF CountInv, AppliedHere, SilenceIsRecovered, readyVars
  <1>f. CASE UpdateWithoutSound
    <2>a. /\ sound = NoSound /\ UNCHANGED <<sound, silentFor>>
          /\ LastMasterVolume' = NoSound /\ ReadyGfSound' = NoSound
          /\ CandidateStableFrames' = 0
          /\ ~EnabledStateAppliedForMaster' /\ EnabledSilentFrames' = 0
      BY <1>f DEF UpdateWithoutSound, InvalidateEnabledState, soundVars, heardVars
    <2> QED
      BY <2>a DEF CountInv, AppliedHere, SilenceIsRecovered
  <1>g. CASE UpdateWaits
    BY <1>g, WaitingCounts
  <1>h. CASE UpdateReady
    <2>a. /\ sound # NoSound /\ LastMasterVolume' = sound /\ ReadyGfSound' = sound
          /\ UNCHANGED sound
      BY <1>h DEF UpdateReady, BecomesReady
    <2>b. CandidateStableFrames' \in Nat
      BY <1>h DEF UpdateReady, BecomesReady, StableFrames, CountInv
    <2>c. CASE BackgroundMusic
      <3>a. KeepAudible
        BY <1>h, <2>c DEF UpdateReady
      <3> QED
        BY <2>a, <2>b, <3>a, KeepAudibleCounts
    <2>d. CASE ~BackgroundMusic
      <3>a. EnabledSilentFrames' = 0 /\ silentFor' = 0
        BY <1>h, <2>d DEF UpdateReady, HoldSilence
      <3> QED
        BY <2>a, <2>b, <3>a DEF CountInv, AppliedHere, SilenceIsRecovered
    <2> QED
      BY <2>c, <2>d
  <1>i. CASE ReloadPlugin
    <2>a. /\ LastMasterVolume' = NoSound /\ ReadyGfSound' = NoSound
          /\ CandidateStableFrames' = 0 /\ silentFor' = 0
          /\ ~EnabledStateAppliedForMaster' /\ EnabledSilentFrames' = 0
      BY <1>i DEF ReloadPlugin
    <2> QED
      BY <2>a DEF CountInv, AppliedHere, SilenceIsRecovered
  <1> QED
    BY <1>a, <1>b, <1>c, <1>d, <1>e, <1>f, <1>g, <1>h, <1>i
    DEF AudioNext, AudioGame, AudioUpdate

\* The module starts with its hand off every level, and no silence counted.
LEMMA AudioInitInv ==
  ASSUME AudioInit
  PROVE  SilenceInv /\ CountInv
  <1>a. /\ ~EnabledStateAppliedForMaster /\ silencedBy = "NoOne" /\ sound = NoSound
        /\ EnabledSilentFrames = 0 /\ silentFor = 0 /\ CandidateStableFrames = 0
        /\ LastMasterVolume = NoSound
    BY DEF AudioInit
  <1> QED
    BY <1>a, AudioAssumption DEF SilenceInv, CountInv, AppliedHere, SilenceIsRecovered

\* AudioControls: levels are zero by the module's own hand only while its switch is
\* down, and the silence enabled music has suffered is counted in every state.
THEOREM AudioInvariance == AudioSpec => [](SilenceInv /\ CountInv)
  BY AudioInitInv, SilenceStep, CountStep, PTL DEF AudioSpec

\* AudioControls::Update: music that is enabled is never silent for
\* SilentRecoveryFrames updates in a row, whatever the game does to its levels, nor a
\* sound that is not known to be ready for ExistingSoundReadyFrames.
THEOREM SilenceIsRecoveredHolds == AudioSpec => []SilenceIsRecovered
  <1>a. CountInv => SilenceIsRecovered
    BY DEF CountInv
  <1> QED
    BY <1>a, AudioInvariance, PTL

\* AudioControls: the levels saved for the way back are never the silence this
\* instance made; silence that one loaded before it left may be saved, and is
\* answered with full volume.
THEOREM SavedIsNotOurSilenceHolds == AudioSpec => SavedIsNotOurSilence
  <1> DEFINE Answered == /\ SavedVolume # AllSilent /\ SavedVolume' = AllSilent => silencedBy # "Us"
                         /\ silencedBy = "Before" /\ UpdateReady /\ volume' # AllSilent =>
                                volume' = AllFull
  <1>a. SilenceInv /\ [AudioNext]_audioVars => [Answered]_audioVars
    <2> SUFFICES ASSUME SilenceInv, AudioNext PROVE Answered
      OBVIOUS
    <2>a. ASSUME SavedVolume # AllSilent, SavedVolume' = AllSilent PROVE silencedBy # "Us"
      <3>a. CASE UpdateReady
        <4>a. HoldSilence
          BY <2>a, <3>a DEF UpdateReady, KeepAudible
        <4>b. ~Muted
          BY <2>a, <4>a DEF HoldSilence, SavesLevels
        <4> QED
          BY <4>b DEF SilenceInv
      <3>b. CASE ReloadPlugin
        BY <2>a, <3>b, FullIsAudible DEF ReloadPlugin
      <3>c. CASE AudioGame \/ UpdateWithoutSound \/ UpdateWaits
                 \/ ToggleBackgroundMusic \/ SaveStateIfChanged
        BY <2>a, <3>c DEF AudioGame, GameCreatesSound, GameDestroysSound,
                    GfSoundSetupGameHook, GameOptionChanged, GameLoadRewritesVolumes,
                    AudioOnMapChange, UpdateWithoutSound, UpdateWaits, ToggleBackgroundMusic,
                    SaveStateIfChanged, switchVars
      <3> QED
        BY <3>a, <3>b, <3>c DEF AudioNext, AudioUpdate
    <2>b. ASSUME silencedBy = "Before", UpdateReady, volume' # AllSilent
          PROVE  volume' = AllFull
      <3>a. volume = AllSilent /\ SavedVolume \in {AllFull, AllSilent}
        BY <2>b DEF SilenceInv
      <3>b. KeepAudible
        BY <2>b DEF UpdateReady, HoldSilence
      <3>c. volume' = RestoredVolumes
        BY <2>b, <3>a, <3>b DEF KeepAudible
      <3> QED
        BY <3>a, <3>c DEF RestoredVolumes
    <2> QED
      BY <2>a, <2>b
  <1>b. [][Answered]_audioVars <=> SavedIsNotOurSilence
    BY DEF SavedIsNotOurSilence
  <1> QED
    BY <1>a, <1>b, AudioInvariance, PTL DEF AudioSpec

----
(* The queue of Blades. *)

LEMMA LeastIsMember ==
  ASSUME NEW T, T \subseteq Nat, T # {}
  PROVE  Min(T) \in T
  BY LeastNatural DEF Min

----
(* Queues. *)

LEMMA QueueIsSequence ==
  ASSUME NEW q
  PROVE  q \in Queue <=> q \in Seq(Blade) /\ Len(q) <= MaxPulls
  <1>a. ASSUME q \in Queue PROVE q \in Seq(Blade) /\ Len(q) <= MaxPulls
    <2>a. PICK n \in 0 .. MaxPulls : q \in [1 .. n -> Blade]
      BY <1>a DEF Queue
    <2> QED
      BY <2>a, PullsAssumption
  <1>b. ASSUME q \in Seq(Blade), Len(q) <= MaxPulls PROVE q \in Queue
    <2>a. q \in [1 .. Len(q) -> Blade] /\ Len(q) \in 0 .. MaxPulls
      BY <1>b, PullsAssumption
    <2> QED
      BY <2>a DEF Queue
  <1> QED
    BY <1>a, <1>b

LEMMA EmptyQueue == <<>> \in Queue /\ Len(<<>>) = 0 /\ 0 \in 0 .. MaxPulls /\ 0 \in 0 .. Len(<<>>)
  <1>a. <<>> \in Seq(Blade) /\ Len(<<>>) = 0
    OBVIOUS
  <1>b. MaxPulls \in Nat
    BY PullsAssumption
  <1>c. <<>> \in Queue
    <2>a. Len(<<>>) <= MaxPulls
      BY <1>a, <1>b
    <2> QED
      BY <1>a, <2>a, QueueIsSequence, Zenon
  <1> QED
    BY <1>a, <1>b, <1>c

LEMMA SwappedIsSequence ==
  ASSUME pulls \in Seq(Blade), NEW i \in 1 .. Len(pulls), NEW j \in 1 .. Len(pulls)
  PROVE  Swapped(i, j) \in Seq(Blade) /\ Len(Swapped(i, j)) = Len(pulls)
  <1>a. pulls[i] \in Blade /\ pulls[j] \in Blade
    OBVIOUS
  <1> QED
    BY <1>a DEF Swapped

LEMMA InsertedIsSequence ==
  ASSUME NEW S, NEW q \in Seq(S), NEW i \in 1 .. Len(q) + 1, NEW b \in S
  PROVE  InsertAt(q, i, b) \in Seq(S) /\ Len(InsertAt(q, i, b)) = Len(q) + 1
  <1>a. SubSeq(q, 1, i - 1) \in Seq(S) /\ Len(SubSeq(q, 1, i - 1)) = i - 1
    OBVIOUS
  <1>b. SubSeq(q, i, Len(q)) \in Seq(S) /\ Len(SubSeq(q, i, Len(q))) = Len(q) - i + 1
    OBVIOUS
  <1>c. <<b>> \in Seq(S) /\ Len(<<b>>) = 1
    OBVIOUS
  <1> DEFINE head == SubSeq(q, 1, i - 1)
             tail == SubSeq(q, i, Len(q))
  <1>d. InsertAt(q, i, b) = (head \o <<b>>) \o tail
    BY DEF InsertAt
  <1> HIDE DEF head, tail
  <1>e. head \o <<b>> \in Seq(S) /\ Len(head \o <<b>>) = i
    BY <1>a, <1>c DEF head
  <1>f. tail \in Seq(S) /\ Len(tail) = Len(q) - i + 1
    BY <1>b DEF tail
  <1> QED
    BY <1>d, <1>e, <1>f

LEMMA RemovedIsSequence ==
  ASSUME pulls \in Seq(Blade), NEW i \in 1 .. Len(pulls)
  PROVE  RemoveAt(pulls, i) \in Seq(Blade) /\ Len(RemoveAt(pulls, i)) = Len(pulls) - 1
  <1> DEFINE head == SubSeq(pulls, 1, i - 1)
             tail == SubSeq(pulls, i + 1, Len(pulls))
  <1>a. head \in Seq(Blade) /\ Len(head) = i - 1
    OBVIOUS
  <1>b. tail \in Seq(Blade) /\ Len(tail) = Len(pulls) - i
    OBVIOUS
  <1> HIDE DEF head, tail
  <1>c. head \o tail \in Seq(Blade) /\ Len(head \o tail) = Len(pulls) - 1
    BY <1>a, <1>b
  <1> QED
    BY <1>c DEF RemoveAt, head, tail

----
(* Presets. *)

\* What the invariant says of the preset and its file.
PresetOK ==
    /\ card \in [Preset -> Stored \cup {Absent, Unreadable}]
    /\ presetFiles \subseteq Preset /\ currentPreset \in Preset
    /\ enabled \in BOOLEAN /\ saved \in BOOLEAN
    /\ pulls \in Queue
    /\ SavedPresetIsCurrent

\* A preset is written with what becomes the queue in memory.
LEMMA SavesPreset ==
  ASSUME card \in [Preset -> Stored \cup {Absent, Unreadable}],
         NEW preset \in Preset, NEW on \in BOOLEAN, NEW queue \in Queue,
         SavePreset(preset, on, queue), currentPreset' = preset, enabled' = on, pulls' = queue
  PROVE  PresetOK'
  <1>a. PICK w \in WriteTextFile(card[preset], [enabled |-> on, pulls |-> queue]) :
            /\ card' = [card EXCEPT ![preset] = w.left]
            /\ presetFiles' = Existing(card')
            /\ saved' = w.ok
    BY DEF SavePreset
  <1>b. [enabled |-> on, pulls |-> queue] \in Stored
    BY DEF Stored
  <1>c. w.left \in Stored \cup {Absent, Unreadable} /\ w.ok \in BOOLEAN
        /\ (w.ok => w.left = [enabled |-> on, pulls |-> queue])
    <2> DEFINE contents == [enabled |-> on, pulls |-> queue]
    <2>a. card[preset] \in Stored \cup {Absent, Unreadable}
      OBVIOUS
    <2> HIDE DEF contents
    <2>b. w \in {[left |-> contents, ok |-> TRUE]} \cup
               {[left |-> x, ok |-> FALSE] : x \in {card[preset], Absent, Unreadable}}
      BY <1>a DEF WriteTextFile, contents
    <2>c. contents \in Stored
      BY <1>b DEF contents
    <2>d. CASE w = [left |-> contents, ok |-> TRUE]
      BY <2>c, <2>d DEF contents
    <2>e. CASE \E x \in {card[preset], Absent, Unreadable} : w = [left |-> x, ok |-> FALSE]
      BY <2>a, <2>e
    <2> QED
      BY <2>b, <2>d, <2>e
  <1>d. card' \in [Preset -> Stored \cup {Absent, Unreadable}] /\ card'[preset] = w.left
    BY <1>a, <1>c
  <1>e. presetFiles' \subseteq Preset
    BY <1>a DEF Existing
  <1> QED
    BY <1>a, <1>c, <1>d, <1>e DEF PresetOK, SavedPresetIsCurrent

LEMMA LoadsPreset ==
  ASSUME card \in [Preset -> Stored \cup {Absent, Unreadable}],
         NEW preset \in Preset, LoadPreset(preset), presetFiles' \subseteq Preset
  PROVE  PresetOK' /\ selectedPull' = 0
  <1>a. /\ currentPreset' = preset /\ selectedPull' = 0 /\ card' = card
        /\ enabled' = Parsed(card[preset]).enabled /\ pulls' = Parsed(card[preset]).pulls
        /\ saved' = (card[preset] \notin {Absent, Unreadable})
    BY DEF LoadPreset
  <1>b. <<>> \in Queue
    BY EmptyQueue
  <1>c. CASE card[preset] \in {Absent, Unreadable}
    <2>a. enabled' = FALSE /\ pulls' = <<>> /\ saved' = FALSE
      BY <1>a, <1>c DEF Parsed
    <2> QED
      BY <1>a, <1>b, <2>a DEF PresetOK, SavedPresetIsCurrent
  <1>d. CASE card[preset] \notin {Absent, Unreadable}
    <2>a. card[preset] \in Stored
      BY <1>d
    <2>b. enabled' = card[preset].enabled /\ pulls' = card[preset].pulls /\ saved' \in BOOLEAN
      BY <1>a, <1>d DEF Parsed
    <2>c. enabled' \in BOOLEAN /\ pulls' \in Queue
      BY <2>a, <2>b DEF Stored
    <2>d. card[preset] = [enabled |-> enabled', pulls |-> pulls']
      BY <2>a, <2>b DEF Stored
    <2> QED
      BY <1>a, <2>b, <2>c, <2>d DEF PresetOK, SavedPresetIsCurrent
  <1> QED
    BY <1>a, <1>c, <1>d

LEMMA CreatesPreset ==
  ASSUME card \in [Preset -> Stored \cup {Absent, Unreadable}], CreatePreset
  PROVE  PresetOK' /\ selectedPull' = 0 /\ pulls' = <<>>
  <1>a. <<>> \in Queue
    BY EmptyQueue
  <1> QED
    BY <1>a, SavesPreset DEF CreatePreset

----
(* The invariant. *)

\* What was shaped and not yet added is the pull at the cursor, if it is of its kind.
ShapedByActivePull ==
    made # NoBlade /\ overridePendingCommit /\ HasActivePull /\ made.kind = ActivePull.kind
        => made = ActivePull

PullsInv == TypeOK /\ SavedPresetIsCurrent /\ ShapedByActivePull

\* The rest of the type invariant.
ProgressOK ==
    /\ running \in BOOLEAN
    /\ selectedPull \in 0 .. Len(pulls)
    /\ queueCursor \in 0 .. MaxPulls
    /\ overridePendingCommit \in BOOLEAN
    /\ rareChoices \in {{}, RareIds}
    /\ made \in Blade \cup {NoBlade}

LEMMA PullsParts == PullsInv <=> PresetOK /\ ProgressOK /\ ShapedByActivePull
  BY DEF PullsInv, TypeOK, PresetOK, ProgressOK

LEMMA PullsPartsNext == PullsInv' <=> PresetOK' /\ ProgressOK' /\ ShapedByActivePull'
  BY DEF PullsInv, TypeOK, PresetOK, ProgressOK

LEMMA ActivePullIsBlade ==
  ASSUME PullsInv, HasActivePull
  PROVE  ActivePull \in Blade
  <1>a. pulls \in Seq(Blade) /\ queueCursor \in Nat /\ queueCursor < Len(pulls)
    BY QueueIsSequence, PullsAssumption DEF PullsInv, TypeOK, HasActivePull
  <1> QED
    BY <1>a DEF ActivePull

LEMMA SetupKeeps ==
  ASSUME PullsInv, NEW native \in Blade, SetupSDataBlade(native)
  PROVE  PullsInv'
  <1> USE PullsParts
  <1>a. UNCHANGED <<files, running, memory, queueCursor, rareChoices, saved>>
    BY DEF SetupSDataBlade
  <1>b. PresetOK'
    BY <1>a DEF PresetOK, SavedPresetIsCurrent, files, memory
  <1>c. UNCHANGED HasActivePull /\ UNCHANGED ActivePull
    BY <1>a DEF HasActivePull, ActivePull, memory
  <1>d. /\ made' \in Blade /\ overridePendingCommit' \in BOOLEAN
        /\ HasActivePull /\ overridePendingCommit' /\ made'.kind = ActivePull.kind
             => made' = ActivePull
    <2>a. CASE ~HasActivePull
      BY <2>a DEF SetupSDataBlade, ProgressOK
    <2>b. CASE HasActivePull /\ ActivePull.kind = "Rare"
      <3>a. PICK id \in RareIds : /\ made' = [kind |-> "Rare", what |-> id]
                                  /\ overridePendingCommit' = (id = ActivePull.what)
        BY <2>b DEF SetupSDataBlade
      <3>b. made' \in Blade
        BY <3>a DEF Blade
      <3>c. ActivePull.what = id => ActivePull = [kind |-> "Rare", what |-> id]
        BY <2>b, ActivePullIsBlade DEF Blade
      <3> QED
        BY <3>a, <3>b, <3>c
    <2>c. CASE HasActivePull /\ ActivePull.kind # "Rare"
      <3>a. /\ \/ made' = ActivePull
               \/ native.kind = "Rare" /\ made' = native
            /\ overridePendingCommit' = TRUE
        BY <2>c DEF SetupSDataBlade
      <3> QED
        BY <2>c, <3>a, ActivePullIsBlade
    <2> QED
      BY <2>a, <2>b, <2>c
  <1>e. ProgressOK'
    BY <1>a, <1>d DEF ProgressOK, memory
  <1>f. ShapedByActivePull'
    BY <1>c, <1>d DEF ShapedByActivePull
  <1> QED
    BY <1>b, <1>e, <1>f, PullsPartsNext

LEMMA AddBladeKeeps ==
  ASSUME PullsInv, NEW accepted \in BOOLEAN, AddBlade(accepted)
  PROVE  PullsInv'
  <1> USE PullsParts
  <1>a. made' = NoBlade
        /\ UNCHANGED <<running, currentPreset, pulls, selectedPull, rareChoices>>
    BY DEF AddBlade
  <1>b. CASE UNCHANGED <<progress, files, enabled, saved>>
    BY <1>a, <1>b, PullsPartsNext DEF PresetOK, ProgressOK, SavedPresetIsCurrent,
                                      ShapedByActivePull, files, progress
  <1>c. CASE accepted /\ Commits(made.kind)
    <2>a. /\ overridePendingCommit' = FALSE /\ queueCursor' = queueCursor + 1
          /\ IF queueCursor + 1 >= Len(pulls) THEN SwitchOff
             ELSE UNCHANGED <<files, enabled, saved>>
      BY <1>c DEF AddBlade, CommitPull
    <2>b. queueCursor' \in 0 .. MaxPulls
      BY <1>c, <2>a, QueueIsSequence, PullsAssumption
      DEF Commits, HasActivePull, PresetOK, ProgressOK
    <2>c. PresetOK'
      <3>a. CASE SwitchOff
        BY <1>a, <3>a, SavesPreset DEF SwitchOff, PresetOK
      <3>b. CASE UNCHANGED <<files, enabled, saved>>
        BY <1>a, <3>b DEF PresetOK, SavedPresetIsCurrent, files
      <3> QED
        BY <2>a, <3>a, <3>b
    <2>d. ProgressOK' /\ ShapedByActivePull'
      BY <1>a, <2>a, <2>b DEF ProgressOK, ShapedByActivePull
    <2> QED
      BY <2>c, <2>d, PullsPartsNext
  <1> QED
    BY <1>b, <1>c DEF AddBlade, CommitPull

\* A step of the window that starts the queue over.
LEMMA StartsOver ==
  ASSUME PullsInv, PresetOK', Drawn, selectedPull' \in 0 .. Len(pulls'),
         ResetQueueCursor \/ (~HasActivePull' /\ UNCHANGED progress)
  PROVE  PullsInv'
  <1>a. UNCHANGED <<running, made>> /\ rareChoices' = RareIds
    BY DEF Drawn
  <1>b. queueCursor' \in 0 .. MaxPulls /\ overridePendingCommit' \in BOOLEAN
    <2>a. CASE ResetQueueCursor
      BY <2>a, EmptyQueue DEF ResetQueueCursor
    <2>b. CASE UNCHANGED progress
      BY <2>b, PullsParts DEF progress, ProgressOK
    <2> QED
      BY <2>a, <2>b
  <1>c. ProgressOK'
    BY <1>a, <1>b, PullsParts DEF ProgressOK
  <1>d. ShapedByActivePull'
    BY DEF ShapedByActivePull, ResetQueueCursor
  <1> QED
    BY <1>c, <1>d, PullsPartsNext

LEMMA EditKeeps ==
  ASSUME PullsInv, NEW queue \in Seq(Blade), NEW selected \in 0 .. Len(queue),
         EditQueue(queue, selected)
  PROVE  PullsInv'
  <1>a. queue \in Queue
    BY QueueIsSequence DEF EditQueue
  <1>b. /\ Drawn /\ pulls' = queue /\ selectedPull' = selected /\ ResetQueueCursor
        /\ SavePreset(currentPreset, enabled, queue) /\ UNCHANGED <<currentPreset, enabled>>
    BY DEF EditQueue
  <1>c. PresetOK'
    BY <1>a, <1>b, SavesPreset DEF PullsInv, TypeOK
  <1> QED
    BY <1>b, <1>c, StartsOver

LEMMA WindowKeeps ==
  ASSUME PullsInv, Window
  PROVE  PullsInv'
  <1> USE PullsParts
  <1>0. /\ pulls \in Seq(Blade) /\ Len(pulls) \in Nat /\ Len(pulls) <= MaxPulls
        /\ selectedPull \in 0 .. Len(pulls)
    BY QueueIsSequence DEF PresetOK, ProgressOK
  <1>a. ASSUME NEW preset \in Preset, SelectPreset(preset) PROVE PullsInv'
    <2>a. PresetOK' /\ selectedPull' = 0
      BY <1>a, LoadsPreset DEF SelectPreset, PresetOK
    <2>b. Len(pulls') \in Nat
      BY <2>a, QueueIsSequence DEF PresetOK
    <2> QED
      BY <1>a, <2>a, <2>b, StartsOver DEF SelectPreset
  <1>b. ASSUME Reload PROVE PullsInv'
    <2>a. PresetOK' /\ selectedPull' = 0
      BY <1>b, LoadsPreset DEF Reload, PresetOK, Existing
    <2>b. Len(pulls') \in Nat
      BY <2>a, QueueIsSequence DEF PresetOK
    <2> QED
      BY <1>b, <2>a, <2>b, StartsOver DEF Reload
  <1>c. ASSUME NewPreset PROVE PullsInv'
    <2>a. PresetOK' /\ selectedPull' = 0 /\ pulls' = <<>>
      BY <1>c, CreatesPreset DEF NewPreset, PresetOK
    <2>b. enabled' = FALSE
      BY <1>c DEF NewPreset, CreatePreset
    <2> QED
      BY <1>c, <2>a, <2>b, StartsOver DEF NewPreset, HasActivePull
  <1>d. ASSUME ToggleEnabled PROVE PullsInv'
    <2>a. /\ Drawn /\ enabled' = ~enabled /\ SavePreset(currentPreset, ~enabled, pulls)
          /\ IF enabled THEN UNCHANGED progress ELSE ResetQueueCursor
          /\ UNCHANGED <<currentPreset, pulls, selectedPull>>
      BY <1>d DEF ToggleEnabled
    <2>b. PresetOK'
      <3>a. (~enabled) \in BOOLEAN
        OBVIOUS
      <3> QED
        BY <2>a, <3>a, SavesPreset DEF PresetOK
    <2>c. ResetQueueCursor \/ (~HasActivePull' /\ UNCHANGED progress)
      BY <2>a DEF HasActivePull
    <2> QED
      BY <1>0, <2>a, <2>b, <2>c, StartsOver
  <1>e. ASSUME NEW pull \in Blade, AddPull(pull) PROVE PullsInv'
    <2>a. Append(pulls, pull) \in Seq(Blade) /\ selectedPull \in 0 .. Len(Append(pulls, pull))
      BY <1>0
    <2> QED
      BY <1>e, <2>a, EditKeeps DEF AddPull
  <1>f. ASSUME NEW i \in DOMAIN pulls, SelectPull(i) PROVE PullsInv'
    <2>a. /\ Drawn /\ selectedPull' = i
          /\ UNCHANGED <<files, currentPreset, enabled, pulls, progress, saved>>
      BY <1>f DEF SelectPull
    <2>b. PresetOK'
      BY <2>a DEF PresetOK, SavedPresetIsCurrent, files, Drawn
    <2>c. ProgressOK'
      BY <1>0, <2>a DEF ProgressOK, Drawn, progress
    <2>d. ShapedByActivePull'
      BY <2>a DEF ShapedByActivePull, HasActivePull, ActivePull, Drawn, progress
    <2> QED
      BY <2>b, <2>c, <2>d, PullsPartsNext
  <1>g. ASSUME MoveUp PROVE PullsInv'
    <2>a. /\ selectedPull > 1
          /\ EditQueue(Swapped(selectedPull, selectedPull - 1), selectedPull - 1)
      BY <1>g DEF MoveUp
    <2>b. selectedPull \in 1 .. Len(pulls) /\ selectedPull - 1 \in 1 .. Len(pulls)
      BY <1>0, <2>a
    <2>c. Swapped(selectedPull, selectedPull - 1) \in Seq(Blade)
          /\ selectedPull - 1 \in 0 .. Len(Swapped(selectedPull, selectedPull - 1))
      BY <1>0, <2>b, SwappedIsSequence
    <2> QED
      BY <2>a, <2>c, EditKeeps
  <1>h. ASSUME MoveDown PROVE PullsInv'
    <2>a. /\ selectedPull \in 1 .. Len(pulls) - 1
          /\ EditQueue(Swapped(selectedPull, selectedPull + 1), selectedPull + 1)
      BY <1>h DEF MoveDown
    <2>b. selectedPull \in 1 .. Len(pulls) /\ selectedPull + 1 \in 1 .. Len(pulls)
      BY <1>0, <2>a
    <2>c. Swapped(selectedPull, selectedPull + 1) \in Seq(Blade)
          /\ selectedPull + 1 \in 0 .. Len(Swapped(selectedPull, selectedPull + 1))
      BY <1>0, <2>b, SwappedIsSequence
    <2> QED
      BY <2>a, <2>c, EditKeeps
  <1>i. ASSUME Duplicate PROVE PullsInv'
    <2>a. /\ selectedPull \in 1 .. Len(pulls)
          /\ EditQueue(InsertAt(pulls, selectedPull + 1, pulls[selectedPull]), selectedPull + 1)
      BY <1>0, <1>i DEF Duplicate
    <2>b. InsertAt(pulls, selectedPull + 1, pulls[selectedPull]) \in Seq(Blade)
          /\ selectedPull + 1 \in 0 .. Len(InsertAt(pulls, selectedPull + 1, pulls[selectedPull]))
      <3>a. selectedPull + 1 \in 1 .. Len(pulls) + 1 /\ pulls[selectedPull] \in Blade
        BY <1>0, <2>a
      <3> DEFINE inserted == InsertAt(pulls, selectedPull + 1, pulls[selectedPull])
      <3>b. inserted \in Seq(Blade) /\ Len(inserted) = Len(pulls) + 1
        BY <1>0, <3>a, InsertedIsSequence
      <3> HIDE DEF inserted
      <3>c. selectedPull + 1 \in 0 .. Len(inserted)
        BY <1>0, <3>b
      <3> QED
        BY <3>b, <3>c DEF inserted
    <2> QED
      BY <2>a, <2>b, EditKeeps
  <1>j.  ASSUME Delete PROVE PullsInv'
    <2>a. /\ selectedPull \in 1 .. Len(pulls)
          /\ EditQueue(RemoveAt(pulls, selectedPull), SelectionAfterDelete)
      BY <1>0, <1>j DEF Delete
    <2>b. RemoveAt(pulls, selectedPull) \in Seq(Blade)
          /\ Len(RemoveAt(pulls, selectedPull)) = Len(pulls) - 1
      BY <1>0, <2>a, RemovedIsSequence
    <2>c. SelectionAfterDelete \in 0 .. Len(pulls) - 1
      <3>a. {selectedPull, Len(pulls) - 1} \subseteq Nat
        BY <1>0, <2>a
      <3>b. PICK x \in {selectedPull, Len(pulls) - 1} :
               /\ \A y \in {selectedPull, Len(pulls) - 1} : x <= y
               /\ SelectionAfterDelete = x
        BY <3>a, LeastNatural DEF SelectionAfterDelete, Min
      <3> QED
        BY <1>0, <2>a, <3>b
    <2> QED
      BY <2>a, <2>b, <2>c, EditKeeps
  <1> QED
    BY <1>a, <1>b, <1>c, <1>d, <1>e, <1>f, <1>g, <1>h, <1>i, <1>j DEF Window

LEMMA PowerOffKeeps ==
  ASSUME PowerOff, card' \in [Preset -> Stored \cup {Absent, Unreadable}]
  PROVE  PullsInv'
  <1>a. 0 \in Preset
    BY PullsAssumption DEF Preset
  <1>b. PresetOK'
    BY <1>a, EmptyQueue DEF PowerOff, PresetOK, SavedPresetIsCurrent
  <1>c. ProgressOK' /\ ShapedByActivePull'
    BY EmptyQueue DEF PowerOff, ProgressOK, ShapedByActivePull
  <1> QED
    BY <1>b, <1>c, PullsPartsNext

LEMMA InitializeKeeps ==
  ASSUME PullsInv, Initialize
  PROVE  PullsInv'
  <1>a. /\ running' = TRUE /\ ResetQueueCursor /\ UNCHANGED <<rareChoices, made>>
        /\ IF Existing(card) = {} THEN CreatePreset
           ELSE LoadPreset(Min(Existing(card))) /\ presetFiles' = Existing(card)
    BY DEF Initialize
  <1>b. card \in [Preset -> Stored \cup {Absent, Unreadable}]
    BY DEF PullsInv, TypeOK
  <1>c. PresetOK' /\ selectedPull' = 0
    <2>a. CASE Existing(card) = {}
      BY <1>a, <1>b, <2>a, CreatesPreset
    <2>b. CASE Existing(card) # {}
      <3>a. Existing(card) \subseteq Preset /\ Existing(card) \subseteq Nat
        BY PullsAssumption DEF Existing, Preset
      <3>b. Min(Existing(card)) \in Preset
        BY <2>b, <3>a, LeastIsMember
      <3> QED
        BY <1>a, <1>b, <2>b, <3>a, <3>b, LoadsPreset
    <2> QED
      BY <2>a, <2>b
  <1>d. Len(pulls') \in Nat
    BY <1>c, QueueIsSequence DEF PresetOK
  <1>e. ProgressOK'
    <2>a. queueCursor' \in 0 .. MaxPulls /\ overridePendingCommit' \in BOOLEAN
      BY <1>a, EmptyQueue DEF ResetQueueCursor
    <2>b. selectedPull' \in 0 .. Len(pulls')
      BY <1>c, <1>d
    <2> QED
      BY <1>a, <2>a, <2>b DEF ProgressOK, PullsInv, TypeOK
  <1>f. ShapedByActivePull'
    BY <1>a DEF ShapedByActivePull, ResetQueueCursor
  <1> QED
    BY <1>c, <1>e, <1>f, PullsPartsNext

LEMMA PullsStep == PullsInv /\ [Next]_vars => PullsInv'
  <1> SUFFICES ASSUME PullsInv, [Next]_vars PROVE PullsInv'
    OBVIOUS
  <1> USE PullsParts
  <1>a. ASSUME NEW native \in Blade, SetupSDataBlade(native) PROVE PullsInv'
    BY <1>a, SetupKeeps
  <1>b. ASSUME NEW accepted \in BOOLEAN, AddBlade(accepted) PROVE PullsInv'
    BY <1>b, AddBladeKeeps
  <1>c. CASE DropBlade
    BY <1>c, PullsPartsNext DEF DropBlade, PresetOK, ProgressOK, SavedPresetIsCurrent,
       ShapedByActivePull, files, memory, progress
  <1>d. CASE OnSceneTransition
    BY <1>d, PullsPartsNext DEF OnSceneTransition, PresetOK, ProgressOK, SavedPresetIsCurrent,
       ShapedByActivePull, files, memory
  <1>e. CASE Window
    BY <1>e, WindowKeeps
  <1>f. CASE Initialize
    BY <1>f, InitializeKeeps
  <1>g. CASE Quit
    BY <1>g, PowerOffKeeps DEF Quit, PresetOK
  <1>h. CASE Crash
    <2>a. PICK preset \in {currentPreset, FreePreset} \cap Preset, left \in {Absent, Unreadable} :
             card' = [card EXCEPT ![preset] = left]
      BY <1>h DEF Crash
    <2>b. card' \in [Preset -> Stored \cup {Absent, Unreadable}]
      BY <2>a DEF PresetOK
    <2> QED
      BY <1>h, <2>b, PowerOffKeeps DEF Crash
  <1>i. CASE UNCHANGED vars
    BY <1>i, PullsPartsNext DEF vars, PresetOK, ProgressOK, SavedPresetIsCurrent,
       ShapedByActivePull, HasActivePull, ActivePull, files, memory, progress
  <1> QED
    BY <1>a, <1>b, <1>c, <1>d, <1>e, <1>f, <1>g, <1>h, <1>i DEF Next, Game

\* Before the first Initialize the queue is empty and no pull shapes a Blade.
LEMMA PullsInitInv ==
  ASSUME Init
  PROVE  PullsInv
  <1>a. 0 \in Preset
    BY PullsAssumption DEF Preset
  <1>b. PresetOK
    BY <1>a, EmptyQueue DEF Init, PresetOK, SavedPresetIsCurrent
  <1>c. ProgressOK /\ ShapedByActivePull
    BY EmptyQueue DEF Init, ProgressOK, ShapedByActivePull
  <1> QED
    BY <1>b, <1>c, PullsParts

\* BladePulls: whatever is edited, loaded and drawn, the variables keep their types,
\* the card holds the preset in use, and a Blade that waits to be committed is the one
\* its pull asked for, or of another kind.
THEOREM PullsInvariance == Spec => []PullsInv
  BY PullsInitInv, PullsStep, PTL DEF Spec

\* BladePulls::SavePreset: the file of the current preset is the queue in memory, unless
\* it could not be written or read last.
THEOREM SavedPresetIsCurrentHolds == Spec => []SavedPresetIsCurrent
  <1>a. PullsInv => SavedPresetIsCurrent
    BY DEF PullsInv
  <1> QED
    BY <1>a, PullsInvariance, PTL

\* BladePulls::AddBlade: the cursor moves past a pull only when the Blade that is added
\* is the one the pull shaped.
THEOREM PullsAreServedInOrderHolds == Spec => PullsAreServedInOrder
  <1>a. PullsInv /\ [Next]_vars
          => [queueCursor' > queueCursor => /\ queueCursor' = queueCursor + 1
                                            /\ made = pulls[queueCursor + 1]]_vars
    <2> SUFFICES ASSUME PullsInv, Next, queueCursor' > queueCursor
                 PROVE  /\ queueCursor' = queueCursor + 1
                        /\ made = pulls[queueCursor + 1]
      OBVIOUS
    <2>a. queueCursor' # 0 /\ queueCursor' # queueCursor
      BY DEF PullsInv, TypeOK
    <2>b. PICK accepted \in BOOLEAN : AddBlade(accepted)
      BY <2>a DEF Next, Game, Window, SetupSDataBlade, DropBlade, OnSceneTransition, SelectPreset,
         Reload, NewPreset, ToggleEnabled, AddPull, SelectPull, MoveUp, MoveDown, Duplicate,
         Delete, EditQueue, ResetQueueCursor, Initialize, Quit, Crash, PowerOff, progress
    <2>c. Commits(made.kind) /\ made # NoBlade /\ queueCursor' = queueCursor + 1
      BY <2>a, <2>b DEF AddBlade, CommitPull, progress
    <2> QED
      BY <2>c DEF Commits, PullsInv, ShapedByActivePull, ActivePull
  <1> QED
    BY <1>a, PullsInvariance, PTL DEF Spec, PullsAreServedInOrder

----
(* The tracer of Art decisions. *)

----
\* A slot's frames are counted from a frame that is not before it was first seen.
NotOverstated(frame, since, truth) ==
    since # 0 => truth # NeverSeen /\ frame - since <= truth

Since == [ArtSlot -> Nat]
Truth == [ArtSlot -> Nat \cup {NeverSeen}]

TracksOK ==
    /\ FrameCounter \in Nat
    /\ elapsed \in [Character -> Truth]
    /\ ReadyTracks \in [1 .. MaxTracks -> [character : Character \cup {NoCharacter}, readySince : Since]]
    /\ \A t, u \in 1 .. MaxTracks :
          ReadyTracks[t].character = ReadyTracks[u].character
          /\ ReadyTracks[t].character # NoCharacter => t = u
    /\ \A t \in 1 .. MaxTracks, s \in ArtSlot :
          ReadyTracks[t].character # NoCharacter =>
             NotOverstated(FrameCounter, ReadyTracks[t].readySince[s],
                           elapsed[ReadyTracks[t].character][s])

Decision == [call : {"AiArts"}, character : Character, frame : Nat, ready : Since,
             truth : Truth, selectedSlot : ArtSlot \cup {NoSlot}, previous : Nat]
Passed == [call |-> "Passed"]

DecisionOK(d) ==
    /\ d \in Decision
    /\ \A s \in ArtSlot : NotOverstated(d.frame, d.ready[s], d.truth[s])

\* Decisions within decisions: each knows the one that was active before it.
CallsOK ==
    /\ calls \in Seq(Decision \cup {Passed})
    /\ \A i \in DOMAIN calls : calls[i] # Passed =>
          /\ DecisionOK(calls[i])
          /\ calls[i].previous < i
          /\ calls[i].previous # 0 => calls[calls[i].previous] # Passed
    /\ ActiveDecision \in 0 .. Len(calls)
    /\ ActiveDecision # 0 => calls[ActiveDecision] # Passed

EventOK(e) == e.delay > 0 => e.delay <= e.truth

RingOK ==
    /\ HistoryCount \in 0 .. AiHistoryCapacity
    /\ History = [i \in 0 .. AiHistoryCapacity - 1 |-> History[i]]
    /\ \A i \in 0 .. AiHistoryCapacity - 1 : EventOK(History[i])

TracerInv == TracksOK /\ CallsOK /\ RingOK

LEMMA PassedIsNoDecision == Passed \notin Decision
  BY DEF Passed, Decision

LEMMA TrackForCharacter ==
  ASSUME TracksOK, NEW character \in Character
  PROVE  /\ TrackFor(character) \in 1 .. MaxTracks
         /\ \A t \in 1 .. MaxTracks :
               ReadyTracks[t].character = character => t = TrackFor(character)
  <1> DEFINE of(c) == {t \in 1 .. MaxTracks : ReadyTracks[t].character = c}
             first(ts) == CHOOSE t \in ts : \A u \in ts : t <= u
  <1>a. ASSUME NEW ts, ts \subseteq 1 .. MaxTracks, ts # {} PROVE first(ts) \in ts
    <2>a. ts \subseteq Nat
      BY <1>a, TracerAssumption
    <2>b. \E t \in ts : \A u \in ts : t <= u
      BY <1>a, <2>a, LeastNatural
    <2> QED
      BY <2>b, Zenon
  <1>b. of(character) \subseteq 1 .. MaxTracks /\ of(NoCharacter) \subseteq 1 .. MaxTracks
    OBVIOUS
  <1>c. TrackFor(character) = IF of(character) # {} THEN first(of(character))
           ELSE IF of(NoCharacter) # {} THEN first(of(NoCharacter)) ELSE 1
    BY DEF TrackFor
  <1>d. character # NoCharacter
    BY TracerAssumption
  <1>e. 1 \in 1 .. MaxTracks
    BY TracerAssumption
  <1> HIDE DEF first
  <1>f. CASE of(character) # {}
    <2>a. TrackFor(character) \in of(character)
      BY <1>a, <1>b, <1>c, <1>f
    <2> QED
      BY <1>d, <2>a DEF TracksOK
  <1>g. CASE of(character) = {}
    <2>a. \A t \in 1 .. MaxTracks : ReadyTracks[t].character # character
      BY <1>g
    <2>b. TrackFor(character) \in 1 .. MaxTracks
      BY <1>a, <1>b, <1>c, <1>e, <1>g
    <2> QED
      BY <2>a, <2>b
  <1> QED
    BY <1>f, <1>g

LEMMA SnapshotIsNotOverstated ==
  ASSUME TracksOK, NEW character \in Character, NEW readings \in [ArtSlot -> Reading]
  PROVE  /\ Snapshot(character, readings) \in Since
         /\ Seen(character, readings) \in Truth
         /\ \A s \in ArtSlot : NotOverstated(FrameCounter, Snapshot(character, readings)[s],
                                             Seen(character, readings)[s])
  <1> DEFINE track == ReadyTracks[TrackFor(character)]
             since == IF track.character = character THEN track.readySince ELSE NoTrack.readySince
  <1>a. character # NoCharacter
    BY TracerAssumption
  <1>b. track \in [character : Character \cup {NoCharacter}, readySince : Since]
    BY TrackForCharacter DEF TracksOK
  <1>c. NoTrack.readySince \in Since /\ \A s \in ArtSlot : NoTrack.readySince[s] = 0
    BY DEF NoTrack, Since
  <1>d. since \in Since
    BY <1>b, <1>c
  <1>e. \A s \in ArtSlot : NotOverstated(FrameCounter, since[s], elapsed[character][s])
    <2>a. CASE track.character = character
      <3>a. \A s \in ArtSlot : NotOverstated(FrameCounter, track.readySince[s], elapsed[track.character][s])
        BY <1>a, <2>a, TrackForCharacter DEF TracksOK
      <3> QED
        BY <2>a, <3>a
    <2>b. CASE track.character # character
      BY <1>c, <2>b DEF NotOverstated
    <2> QED
      BY <2>a, <2>b
  <1>f. Snapshot(character, readings) = [s \in ArtSlot |-> ReadySince(since[s], readings[s])]
    BY DEF Snapshot
  <1> HIDE DEF since, track
  <1>g. FrameCounter \in Nat /\ elapsed[character] \in Truth
    BY DEF TracksOK
  <1>h. ASSUME NEW s \in ArtSlot
        PROVE  /\ Snapshot(character, readings)[s] \in Nat
               /\ Seen(character, readings)[s] \in Nat \cup {NeverSeen}
               /\ NotOverstated(FrameCounter, Snapshot(character, readings)[s],
                                Seen(character, readings)[s])
    <2>a. since[s] \in Nat /\ elapsed[character][s] \in Nat \cup {NeverSeen}
      BY <1>d, <1>g DEF Since, Truth
    <2>b. NotOverstated(FrameCounter, since[s], elapsed[character][s])
      BY <1>e
    <2>c. Snapshot(character, readings)[s] = ReadySince(since[s], readings[s])
      BY <1>f
    <2>d. CASE readings[s] = "Recharged"
      <3>a. Snapshot(character, readings)[s] = IF since[s] = 0 THEN FrameCounter ELSE since[s]
        BY <2>c, <2>d DEF ReadySince
      <3>b. Seen(character, readings)[s] =
               IF elapsed[character][s] = NeverSeen THEN 0 ELSE elapsed[character][s]
        BY <2>d DEF Seen
      <3> QED
        BY <1>g, <2>a, <2>b, <3>a, <3>b DEF NotOverstated, NeverSeen
    <2>e. CASE readings[s] = "Recharging"
      <3>a. Snapshot(character, readings)[s] = 0 /\ Seen(character, readings)[s] = NeverSeen
        BY <2>c, <2>e DEF ReadySince, Seen
      <3> QED
        BY <3>a DEF NotOverstated
    <2>f. CASE readings[s] = "NoData"
      <3>a. /\ Snapshot(character, readings)[s] = since[s]
            /\ Seen(character, readings)[s] = elapsed[character][s]
        BY <2>c, <2>f DEF ReadySince, Seen
      <3> QED
        BY <2>a, <2>b, <3>a
    <2>g. readings[s] \in Reading
      OBVIOUS
    <2> QED
      BY <2>d, <2>e, <2>f, <2>g DEF Reading
  <1>i. Snapshot(character, readings) \in Since
    <2> DEFINE f == Snapshot(character, readings)
    <2>a. f = [s \in ArtSlot |-> f[s]]
      BY <1>f
    <2> HIDE DEF f
    <2>b. \A s \in ArtSlot : f[s] \in Nat
      BY <1>h DEF f
    <2> QED
      BY <2>a, <2>b DEF f, Since
  <1>j.  Seen(character, readings) \in Truth
    <2> DEFINE f == Seen(character, readings)
    <2>a. f = [s \in ArtSlot |-> f[s]]
      BY DEF Seen
    <2> HIDE DEF f
    <2>b. \A s \in ArtSlot : f[s] \in Nat \cup {NeverSeen}
      BY <1>h DEF f
    <2> QED
      BY <2>a, <2>b DEF f, Truth
  <1> QED
    BY <1>h, <1>i, <1>j

\* What the decision notes is what the track holds, or nothing.
LEMMA ObservedIsNotOverstated ==
  ASSUME TracksOK, NEW character \in Character, NEW readings \in [ArtSlot -> Reading]
  PROVE  /\ Observed(character, readings) \in Since
         /\ \A s \in ArtSlot : NotOverstated(FrameCounter, Observed(character, readings)[s],
                                             Seen(character, readings)[s])
  <1> DEFINE ready == Snapshot(character, readings)
             truth == Seen(character, readings)
             noted == Observed(character, readings)
  <1>a. ready \in Since /\ \A s \in ArtSlot : NotOverstated(FrameCounter, ready[s], truth[s])
    BY SnapshotIsNotOverstated
  <1>b. noted = [s \in ArtSlot |-> IF readings[s] = "NoData" THEN 0 ELSE ready[s]]
    BY DEF Observed
  <1> HIDE DEF ready, truth, noted
  <1>c. noted \in Since
    BY <1>a, <1>b DEF Since
  <1>d. \A s \in ArtSlot : NotOverstated(FrameCounter, noted[s], truth[s])
    BY <1>a, <1>b DEF NotOverstated
  <1> QED
    BY <1>c, <1>d DEF truth, noted

LEMMA BeginsKeeps ==
  ASSUME TracerInv, NEW character \in Character, NEW readings \in [ArtSlot -> Reading],
         AiArtsBegins(character, readings)
  PROVE  TracerInv'
  <1>a. UNCHANGED <<settings, FrameCounter, ring>> /\ RingOK'
    BY DEF AiArtsBegins, ring, TracerInv, RingOK
  <1>b. CASE ~CaptureEnabled
    <2>a. calls' = Append(calls, Passed) /\ UNCHANGED <<ReadyTracks, ActiveDecision, elapsed>>
      BY <1>b DEF AiArtsBegins, Passed
    <2>b. TracksOK'
      BY <1>a, <2>a DEF TracerInv, TracksOK
    <2> DEFINE n == Len(calls)
    <2>c. /\ calls \in Seq(Decision \cup {Passed}) /\ n \in Nat
          /\ \A i \in 1 .. n : calls[i] # Passed =>
                /\ DecisionOK(calls[i]) /\ calls[i].previous < i
                /\ calls[i].previous # 0 => calls[calls[i].previous] # Passed
          /\ ActiveDecision \in 0 .. n
          /\ ActiveDecision # 0 => calls[ActiveDecision] # Passed
      BY DEF TracerInv, CallsOK
    <2>d. /\ calls' \in Seq(Decision \cup {Passed}) /\ Len(calls') = n + 1
          /\ DOMAIN calls' = 1 .. n + 1 /\ calls'[n + 1] = Passed
          /\ \A i \in 1 .. n : calls'[i] = calls[i]
      BY <2>a, <2>c
    <2>e. \A i \in 1 .. n : calls[i] # Passed => calls[i].previous \in Nat
      BY <2>c DEF DecisionOK, Decision
    <2> HIDE DEF n
    <2>f. CallsOK'
      BY <2>a, <2>c, <2>d, <2>e DEF CallsOK
    <2> QED
      BY <1>a, <2>b, <2>f DEF TracerInv
  <1>c. CASE CaptureEnabled
    <2> DEFINE ready == Snapshot(character, readings)
               noted == Observed(character, readings)
               truth == Seen(character, readings)
               track == TrackFor(character)
               d == [call |-> "AiArts", character |-> character, frame |-> FrameCounter,
                     ready |-> noted, truth |-> truth,
                     selectedSlot |-> NoSlot, previous |-> ActiveDecision]
    <2>a. /\ elapsed' = [elapsed EXCEPT ![character] = truth]
          /\ ReadyTracks' = [ReadyTracks EXCEPT ![track] =
                                [character |-> character, readySince |-> ready]]
          /\ calls' = Append(calls, d) /\ ActiveDecision' = Len(calls')
      BY <1>c DEF AiArtsBegins
    <2>b. /\ ready \in Since /\ truth \in Truth
          /\ \A s \in ArtSlot : NotOverstated(FrameCounter, ready[s], truth[s])
          /\ noted \in Since
          /\ \A s \in ArtSlot : NotOverstated(FrameCounter, noted[s], truth[s])
      BY SnapshotIsNotOverstated, ObservedIsNotOverstated DEF TracerInv
    <2>c. /\ track \in 1 .. MaxTracks
          /\ \A t \in 1 .. MaxTracks : ReadyTracks[t].character = character => t = track
      BY TrackForCharacter DEF TracerInv
    <2>d. FrameCounter \in Nat /\ FrameCounter' = FrameCounter /\ ActiveDecision \in Nat
      BY <1>a DEF TracerInv, TracksOK, CallsOK
    <2>e. DecisionOK(d) /\ d # Passed /\ d \in Decision /\ d.previous = ActiveDecision
      <3>a. d \in Decision
        BY <2>b, <2>d DEF Decision
      <3> QED
        BY <2>b, <3>a, PassedIsNoDecision DEF DecisionOK
    <2> HIDE DEF ready, noted, truth, track, d
    <2>f. TracksOK'
      <3>a. /\ elapsed' \in [Character -> Truth]
            /\ elapsed'[character] = truth
            /\ \A c \in Character \ {character} : elapsed'[c] = elapsed[c]
        BY <2>a, <2>b DEF TracerInv, TracksOK
      <3>b. [character |-> character, readySince |-> ready]
              \in [character : Character \cup {NoCharacter}, readySince : Since]
        BY <2>b
      <3>c. /\ ReadyTracks' \in [1 .. MaxTracks -> [character : Character \cup {NoCharacter},
                                                     readySince : Since]]
            /\ ReadyTracks'[track] = [character |-> character, readySince |-> ready]
            /\ \A t \in 1 .. MaxTracks \ {track} : ReadyTracks'[t] = ReadyTracks[t]
        BY <2>a, <2>c, <3>b DEF TracerInv, TracksOK
      <3>d. ASSUME NEW t \in 1 .. MaxTracks, NEW u \in 1 .. MaxTracks,
                   ReadyTracks'[t].character = ReadyTracks'[u].character,
                   ReadyTracks'[t].character # NoCharacter
            PROVE  t = u
        <4>a. \A v \in 1 .. MaxTracks \ {track} :
                 ReadyTracks'[v].character = ReadyTracks[v].character
                 /\ ReadyTracks[v].character # character
          BY <2>c, <3>c
        <4>b. ReadyTracks'[track].character = character
          BY <3>c
        <4>c. CASE t = track \/ u = track
          BY <3>d, <4>a, <4>b, <4>c
        <4>d. CASE t # track /\ u # track
          BY <3>d, <4>a, <4>d DEF TracerInv, TracksOK
        <4> QED
          BY <4>c, <4>d
      <3>e. ASSUME NEW t \in 1 .. MaxTracks, NEW s \in ArtSlot,
                   ReadyTracks'[t].character # NoCharacter
            PROVE  NotOverstated(FrameCounter, ReadyTracks'[t].readySince[s],
                                 elapsed'[ReadyTracks'[t].character][s])
        <4>a. CASE t = track
          <5>a. ReadyTracks'[t].readySince = ready /\ ReadyTracks'[t].character = character
            BY <3>c, <4>a
          <5> QED
            BY <2>b, <3>a, <5>a
        <4>b. CASE t # track
          <5>a. ReadyTracks'[t] = ReadyTracks[t] /\ ReadyTracks[t].character # character
            BY <2>c, <3>c, <4>b
          <5>b. ReadyTracks[t].character \in Character
            BY <3>e, <5>a DEF TracerInv, TracksOK
          <5>c. elapsed'[ReadyTracks[t].character] = elapsed[ReadyTracks[t].character]
            BY <3>a, <5>a, <5>b
          <5>d. NotOverstated(FrameCounter, ReadyTracks[t].readySince[s],
                              elapsed[ReadyTracks[t].character][s])
            BY <3>e, <5>a DEF TracerInv, TracksOK
          <5> QED
            BY <5>a, <5>c, <5>d
        <4> QED
          BY <4>a, <4>b
      <3> QED
        BY <2>d, <3>a, <3>c, <3>d, <3>e DEF TracksOK
    <2>g. CallsOK'
      <3> DEFINE n == Len(calls)
      <3>a. /\ calls \in Seq(Decision \cup {Passed}) /\ n \in Nat
            /\ \A i \in 1 .. n : calls[i] # Passed =>
                  /\ DecisionOK(calls[i]) /\ calls[i].previous < i
                  /\ calls[i].previous # 0 => calls[calls[i].previous] # Passed
            /\ ActiveDecision \in 0 .. n
            /\ ActiveDecision # 0 => calls[ActiveDecision] # Passed
        BY DEF TracerInv, CallsOK
      <3>b. /\ calls' \in Seq(Decision \cup {Passed}) /\ Len(calls') = n + 1
            /\ DOMAIN calls' = 1 .. n + 1 /\ calls'[n + 1] = d
            /\ \A i \in 1 .. n : calls'[i] = calls[i]
        BY <2>a, <2>e, <3>a
      <3>c. \A i \in 1 .. n : calls[i] # Passed => calls[i].previous \in Nat
        BY <3>a DEF DecisionOK, Decision
      <3> HIDE DEF n
      <3>d. ASSUME NEW i \in 1 .. n + 1, calls'[i] # Passed
            PROVE  /\ DecisionOK(calls'[i]) /\ calls'[i].previous < i
                   /\ calls'[i].previous # 0 => calls'[calls'[i].previous] # Passed
        <4>a. CASE i = n + 1
          BY <2>e, <3>a, <3>b, <4>a
        <4>b. CASE i # n + 1
          BY <3>a, <3>b, <3>c, <3>d, <4>b
        <4> QED
          BY <4>a, <4>b
      <3>e. ActiveDecision' = n + 1
        BY <2>a, <3>b
      <3> QED
        BY <2>e, <3>a, <3>b, <3>d, <3>e DEF CallsOK
    <2> QED
      BY <1>a, <2>f, <2>g DEF TracerInv
  <1> QED
    BY <1>b, <1>c

\* The inner call is gone; what was active before it is still a decision.
LEMMA CallsPopped ==
  ASSUME CallsOK, calls # <<>>, calls' = Popped,
         \/ Innermost # Passed /\ ActiveDecision' = Innermost.previous
         \/ Innermost = Passed /\ ActiveDecision' = ActiveDecision
  PROVE  CallsOK'
  <1> DEFINE n == Len(calls)
  <1>a. /\ calls \in Seq(Decision \cup {Passed}) /\ n \in Nat \ {0}
        /\ DOMAIN calls = 1 .. n
        /\ \A i \in 1 .. n : calls[i] # Passed =>
              /\ DecisionOK(calls[i]) /\ calls[i].previous < i
              /\ calls[i].previous # 0 => calls[calls[i].previous] # Passed
        /\ ActiveDecision \in 0 .. n
        /\ ActiveDecision # 0 => calls[ActiveDecision] # Passed
    BY DEF CallsOK
  <1>b. /\ calls' \in Seq(Decision \cup {Passed}) /\ Len(calls') = n - 1
        /\ DOMAIN calls' = 1 .. n - 1
        /\ \A i \in 1 .. n - 1 : calls'[i] = calls[i]
    BY <1>a DEF Popped
  <1>c. \A i \in 1 .. n : calls[i] # Passed => calls[i].previous \in Nat
    BY <1>a DEF DecisionOK, Decision
  <1>d. Innermost = calls[n]
    BY DEF Innermost
  <1> HIDE DEF n
  <1>e. ActiveDecision' \in 0 .. n - 1
        /\ (ActiveDecision' # 0 => calls[ActiveDecision'] # Passed)
    <2>a. CASE Innermost # Passed /\ ActiveDecision' = Innermost.previous
      BY <1>a, <1>c, <1>d, <2>a
    <2>b. CASE Innermost = Passed /\ ActiveDecision' = ActiveDecision
      <3>a. ActiveDecision # 0 => ActiveDecision # n
        <4>a. calls[n] = Passed
          BY <1>d, <2>b
        <4> QED
          BY <1>a, <4>a, Zenon
      <3>b. ActiveDecision \in 0 .. n - 1
        BY <1>a, <3>a
      <3> QED
        BY <1>a, <2>b, <3>b
    <2> QED
      BY <2>a, <2>b
  <1>f. \A i \in 1 .. n - 1 : calls'[i] # Passed =>
              /\ DecisionOK(calls'[i]) /\ calls'[i].previous < i
              /\ calls'[i].previous # 0 => calls'[calls'[i].previous] # Passed
    BY <1>a, <1>b, <1>c
  <1> QED
    BY <1>a, <1>b, <1>e, <1>f DEF CallsOK

LEMMA InnermostCall ==
  ASSUME CallsOK, calls # <<>>
  PROVE  /\ Innermost.call = "AiArts" <=> Innermost # Passed
         /\ Innermost.call = "Passed" <=> Innermost = Passed
         /\ Innermost # Passed => DecisionOK(Innermost)
  <1>a. Innermost \in Decision \cup {Passed}
    BY DEF CallsOK, Innermost
  <1>b. Innermost # Passed => DecisionOK(Innermost)
    BY DEF CallsOK, Innermost
  <1> QED
    BY <1>a, <1>b DEF Decision, Passed

LEMMA EventIsNotOverstated ==
  ASSUME NEW d, DecisionOK(d)
  PROVE  EventOK(Event(d))
  <1>a. CASE d.selectedSlot = NoSlot
    BY <1>a DEF Event, EventOK
  <1>b. CASE d.selectedSlot # NoSlot
    <2>a. d.selectedSlot \in ArtSlot /\ d.frame \in Nat /\ d.ready[d.selectedSlot] \in Nat
          /\ d.truth[d.selectedSlot] \in Int
      BY <1>b DEF DecisionOK, Decision, Since, Truth, NeverSeen
    <2>b. NotOverstated(d.frame, d.ready[d.selectedSlot], d.truth[d.selectedSlot])
      BY <2>a DEF DecisionOK
    <2>c. Event(d).delay = ReadyDelay(d) /\ Event(d).truth = d.truth[d.selectedSlot]
      BY <1>b DEF Event
    <2> QED
      BY <2>a, <2>b, <2>c DEF EventOK, ReadyDelay, NotOverstated
  <1> QED
    BY <1>a, <1>b

LEMMA ReturnsKeep ==
  ASSUME TracerInv, AiArtsReturns \/ PassedReturns
  PROVE  TracerInv'
  <1>a. TracksOK'
    BY DEF AiArtsReturns, PassedReturns, TracerInv, TracksOK
  <1>b. calls # <<>> /\ calls' = Popped
    BY DEF AiArtsReturns, PassedReturns, Returns
  <1>c. CASE AiArtsReturns
    <2>a. Innermost # Passed /\ DecisionOK(Innermost) /\ ActiveDecision' = Innermost.previous
      BY <1>b, <1>c, InnermostCall DEF AiArtsReturns, Returns, Restored, TracerInv
    <2>b. CallsOK'
      BY <1>b, <2>a, CallsPopped DEF TracerInv
    <2>c. RingOK'
      <3>a. PushHistory(Event(Innermost)) /\ EventOK(Event(Innermost)) /\ RingOK
        BY <1>c, <2>a, EventIsNotOverstated DEF AiArtsReturns, TracerInv
      <3> DEFINE e == Event(Innermost)
      <3> HIDE DEF e
      <3>b. CASE FreezeHistory
        BY <3>a, <3>b DEF PushHistory, ring, RingOK
      <3>c. CASE ~FreezeHistory
        <4>a. /\ History' = [History EXCEPT ![HistoryWrite] = e]
              /\ HistoryCount' = IF HistoryCount < AiHistoryCapacity THEN HistoryCount + 1
                                 ELSE HistoryCount
          BY <3>a, <3>c DEF PushHistory, e
        <4>b. HistoryCount' \in 0 .. AiHistoryCapacity
          BY <3>a, <4>a, TracerAssumption DEF RingOK
        <4>c. /\ History' = [i \in 0 .. AiHistoryCapacity - 1 |-> History'[i]]
              /\ \A i \in 0 .. AiHistoryCapacity - 1 : History'[i] \in {e, History[i]}
          BY <3>a, <4>a DEF RingOK
        <4>d. EventOK(e)
          BY <3>a DEF e
        <4> QED
          BY <3>a, <4>b, <4>c, <4>d DEF RingOK
      <3> QED
        BY <3>b, <3>c
    <2> QED
      BY <1>a, <2>b, <2>c DEF TracerInv
  <1>d. CASE PassedReturns
    <2>a. Innermost = Passed /\ ActiveDecision' = ActiveDecision
      BY <1>b, <1>d, InnermostCall DEF PassedReturns, Returns, TracerInv
    <2>b. CallsOK'
      BY <1>b, <2>a, CallsPopped DEF TracerInv
    <2>c. RingOK'
      BY <1>d DEF PassedReturns, ring, TracerInv, RingOK
    <2> QED
      BY <1>a, <2>b, <2>c DEF TracerInv
  <1> QED
    BY <1>c, <1>d

LEMMA StartArtsKeeps ==
  ASSUME TracerInv, NEW character \in Character, NEW slot \in ArtSlot, StartArts(character, slot)
  PROVE  TracerInv'
  <1>a. /\ ActiveDecision # 0
        /\ calls' = [calls EXCEPT ![ActiveDecision].selectedSlot = slot]
        /\ UNCHANGED <<settings, FrameCounter, ReadyTracks, ring, ActiveDecision, elapsed>>
    BY DEF StartArts
  <1>b. TracksOK' /\ RingOK'
    BY <1>a DEF TracerInv, TracksOK, RingOK, ring
  <1> DEFINE n == Len(calls)
             a == ActiveDecision
             d == [calls[a] EXCEPT !.selectedSlot = slot]
  <1>c. /\ calls \in Seq(Decision \cup {Passed}) /\ n \in Nat
        /\ DOMAIN calls = 1 .. n
        /\ \A i \in 1 .. n : calls[i] # Passed =>
              /\ DecisionOK(calls[i]) /\ calls[i].previous < i
              /\ calls[i].previous # 0 => calls[calls[i].previous] # Passed
        /\ a \in 1 .. n /\ calls[a] # Passed
    BY <1>a DEF TracerInv, CallsOK
  <1>d. calls[a] \in Decision /\ DecisionOK(calls[a])
    BY <1>c DEF DecisionOK
  <1>e. /\ d \in Decision /\ d.frame = calls[a].frame /\ d.ready = calls[a].ready
        /\ d.truth = calls[a].truth /\ d.previous = calls[a].previous
    BY <1>d DEF Decision
  <1>f. DecisionOK(d) /\ d # Passed
    BY <1>d, <1>e, PassedIsNoDecision DEF DecisionOK
  <1>g. calls' = [calls EXCEPT ![a] = d]
    BY <1>a
  <1> HIDE DEF n, a, d
  <1>h. /\ calls' \in Seq(Decision \cup {Passed}) /\ Len(calls') = n /\ DOMAIN calls' = 1 .. n
        /\ calls'[a] = d /\ \A i \in 1 .. n : i # a => calls'[i] = calls[i]
    BY <1>c, <1>e, <1>g DEF n
  <1>i. \A i \in 1 .. n : calls[i] # Passed => calls[i].previous \in Nat
    BY <1>c DEF DecisionOK, Decision
  <1>j.  \A i \in 1 .. n : (calls'[i] = Passed) <=> (calls[i] = Passed)
    BY <1>c, <1>f, <1>h
  <1>k.  ASSUME NEW i \in 1 .. n, calls'[i] # Passed
         PROVE  /\ DecisionOK(calls'[i]) /\ calls'[i].previous < i
                /\ calls'[i].previous # 0 => calls'[calls'[i].previous] # Passed
    <2>a. DecisionOK(calls'[i]) /\ calls'[i].previous = calls[i].previous
      BY <1>c, <1>e, <1>f, <1>h, <1>j, <1>k
    <2>b. calls[i] # Passed
      BY <1>j, <1>k
    <2> QED
      BY <1>c, <1>i, <1>j, <2>a, <2>b
  <1>l.  CallsOK'
    <2>a. ActiveDecision' = a
      BY <1>a DEF a
    <2> QED
      BY <1>c, <1>f, <1>h, <1>k, <2>a DEF CallsOK
  <1> QED
    BY <1>b, <1>l DEF TracerInv

LEMMA EmptyRingIsOK ==
  ASSUME History' = EmptyRing, HistoryCount' = 0
  PROVE  RingOK'
  BY TracerAssumption DEF EmptyRing, RingOK, EventOK

LEMMA NoTracksAreOK ==
  ASSUME ReadyTracks' = NoTracks, FrameCounter' \in Nat, elapsed' \in [Character -> Truth]
  PROVE  TracksOK'
  <1>a. NoTrack \in [character : Character \cup {NoCharacter}, readySince : Since]
    BY DEF NoTrack, Since
  <1>b. \A t \in 1 .. MaxTracks : ReadyTracks'[t] = NoTrack /\ NoTrack.character = NoCharacter
    BY DEF NoTracks, NoTrack
  <1>c. ReadyTracks' \in [1 .. MaxTracks -> [character : Character \cup {NoCharacter}, readySince : Since]]
    BY <1>a DEF NoTracks
  <1> QED
    BY <1>b, <1>c DEF TracksOK

LEMMA TracerStep == TracerInv /\ [TracerNext]_tracerVars => TracerInv'
  <1> SUFFICES ASSUME TracerInv, [TracerNext]_tracerVars PROVE TracerInv'
    OBVIOUS
  <1>0. ASSUME UNCHANGED nesting PROVE CallsOK'
    BY <1>0 DEF nesting, TracerInv, CallsOK
  <1>a. ASSUME NEW character \in Character, NEW readings \in [ArtSlot -> Reading],
               AiArtsBegins(character, readings)
        PROVE  TracerInv'
    BY <1>a, BeginsKeeps
  <1>b. ASSUME NEW character \in Character, NEW slot \in ArtSlot, StartArts(character, slot)
        PROVE  TracerInv'
    BY <1>b, StartArtsKeeps
  <1>c. CASE AiArtsReturns \/ PassedReturns
    BY <1>c, ReturnsKeep
  <1>d. CASE Update
    <2>a. /\ FrameCounter' = FrameCounter + 1
          /\ elapsed' = [c \in Character |-> [s \in ArtSlot |->
                            IF elapsed[c][s] = NeverSeen THEN NeverSeen ELSE elapsed[c][s] + 1]]
          /\ UNCHANGED <<settings, ReadyTracks, ring, nesting>>
      BY <1>d DEF Update
    <2>b. FrameCounter \in Nat /\ \A c \in Character, s \in ArtSlot :
             elapsed[c][s] \in Nat \cup {NeverSeen}
      BY DEF TracerInv, TracksOK, Truth
    <2>c. elapsed' \in [Character -> Truth]
      BY <2>a, <2>b DEF Truth
    <2>d. ASSUME NEW t \in 1 .. MaxTracks, NEW s \in ArtSlot,
                 ReadyTracks[t].character # NoCharacter
          PROVE  NotOverstated(FrameCounter', ReadyTracks[t].readySince[s],
                               elapsed'[ReadyTracks[t].character][s])
      <3>a. ReadyTracks[t].character \in Character /\ ReadyTracks[t].readySince[s] \in Nat
        BY <2>d DEF TracerInv, TracksOK, Since
      <3>b. NotOverstated(FrameCounter, ReadyTracks[t].readySince[s],
                          elapsed[ReadyTracks[t].character][s])
        BY <2>d DEF TracerInv, TracksOK
      <3> QED
        BY <2>a, <2>b, <3>a, <3>b DEF NotOverstated, NeverSeen
    <2>e. TracksOK'
      BY <2>a, <2>b, <2>c, <2>d DEF TracerInv, TracksOK
    <2> QED
      BY <1>0, <2>a, <2>e DEF TracerInv, RingOK, ring
  <1>e. CASE OnMapChange
    <2>a. NoneSeen \in [Character -> Truth]
      BY DEF NoneSeen, Truth
    <2> QED
      BY <1>0, <1>e, <2>a, NoTracksAreOK, EmptyRingIsOK
      DEF OnMapChange, ClearHistory, ClearTracks, TracerInv
  <1>f. CASE Clear
    <2>a. FrameCounter' \in Nat /\ elapsed' \in [Character -> Truth]
      BY <1>f DEF Clear, TracerInv, TracksOK
    <2> QED
      BY <1>0, <1>f, <2>a, NoTracksAreOK, EmptyRingIsOK
      DEF Clear, ClearHistory, ClearTracks, TracerInv
  <1>g. CASE ResetCounter
    <2>a. FrameCounter' = 0 /\ UNCHANGED <<settings, ReadyTracks, ring, nesting, elapsed>>
      BY <1>g DEF ResetCounter
    <2>b. ASSUME NEW t \in 1 .. MaxTracks, NEW s \in ArtSlot,
                 ReadyTracks[t].character # NoCharacter
          PROVE  NotOverstated(0, ReadyTracks[t].readySince[s], elapsed[ReadyTracks[t].character][s])
      <3>a. ReadyTracks[t].character \in Character /\ ReadyTracks[t].readySince[s] \in Nat
            /\ elapsed[ReadyTracks[t].character][s] \in Nat \cup {NeverSeen}
            /\ FrameCounter \in Nat
        BY <2>b DEF TracerInv, TracksOK, Since, Truth
      <3>b. NotOverstated(FrameCounter, ReadyTracks[t].readySince[s],
                          elapsed[ReadyTracks[t].character][s])
        BY <2>b DEF TracerInv, TracksOK
      <3> QED
        BY <3>a, <3>b DEF NotOverstated, NeverSeen
    <2>c. TracksOK'
      BY <2>a, <2>b DEF TracerInv, TracksOK
    <2> QED
      BY <1>0, <2>a, <2>c DEF TracerInv, RingOK, ring
  <1>h. CASE Toggle
    BY <1>0, <1>h DEF Toggle, TracerInv, TracksOK, RingOK, ring
  <1>i. CASE UNCHANGED tracerVars
    BY <1>0, <1>i DEF tracerVars, TracerInv, TracksOK, RingOK, ring
  <1> QED
    BY <1>a, <1>b, <1>c, <1>d, <1>e, <1>f, <1>g, <1>h, <1>i DEF TracerNext, Battle

LEMMA TracerInitInv == TracerInit => TracerInv
  <1> SUFFICES ASSUME TracerInit PROVE TracerInv
    OBVIOUS
  <1>a. NoTrack \in [character : Character \cup {NoCharacter}, readySince : Since]
    BY DEF NoTrack, Since
  <1>b. \A t \in 1 .. MaxTracks : ReadyTracks[t] = NoTrack /\ NoTrack.character = NoCharacter
    BY DEF TracerInit, NoTracks, NoTrack
  <1>c. ReadyTracks \in [1 .. MaxTracks -> [character : Character \cup {NoCharacter}, readySince : Since]]
    BY <1>a DEF TracerInit, NoTracks
  <1>d. TracksOK
    <2>a. NoneSeen \in [Character -> Truth]
      BY DEF NoneSeen, Truth
    <2> QED
      BY <1>b, <1>c, <2>a DEF TracerInit, TracksOK
  <1>e. RingOK
    BY TracerAssumption DEF TracerInit, EmptyRing, RingOK, EventOK
  <1>f. CallsOK
    BY DEF TracerInit, CallsOK
  <1> QED
    BY <1>d, <1>e, <1>f DEF TracerInv

\* CombatAiDebug: no track, no call on the stack and no event of the ring claims that
\* an Art was ready for longer than it was.
THEOREM TracerInvariance == TracerSpec => []TracerInv
  BY TracerInitInv, TracerStep, PTL DEF TracerSpec

\* CombatAiDebug: a delay in the history is never longer than the time for which the
\* chosen Art has truly been ready, though tracks are evicted and calls nest.
THEOREM DelayIsNotOverstatedHolds == TracerSpec => []DelayIsNotOverstated
  <1>a. TracerInv => DelayIsNotOverstated
    <2> SUFFICES ASSUME TracerInv, NEW i \in 0 .. HistoryCount - 1 PROVE EventOK(History[i])
      BY DEF DelayIsNotOverstated, EventOK
    <2>a. i \in 0 .. AiHistoryCapacity - 1
      BY TracerAssumption DEF TracerInv, RingOK
    <2> QED
      BY <2>a DEF TracerInv, RingOK
  <1> QED
    BY <1>a, TracerInvariance, PTL

----
(* The traces of the pad. *)

LEMMA GreatestNatural ==
  ASSUME NEW n \in Nat, NEW T, T \subseteq 1 .. n, T # {}
  PROVE  \E x \in T : \A y \in T : y <= x
  <1> DEFINE U == {n - x : x \in T}
  <1>a. U \subseteq Nat /\ U # {}
    <2>a. PICK x \in T : TRUE
      OBVIOUS
    <2>b. n - x \in U
      BY <2>a
    <2>c. \A y \in T : n - y \in Nat
      OBVIOUS
    <2> QED
      BY <2>b, <2>c
  <1>b. PICK u \in U : \A v \in U : u <= v
    BY <1>a, LeastNatural
  <1>c. PICK x \in T : u = n - x
    OBVIOUS
  <1>d. \A y \in T : n - x <= n - y
    BY <1>b, <1>c
  <1>e. ASSUME NEW y \in T PROVE y <= x
    <2>a. x \in Nat /\ y \in Nat /\ n - x <= n - y
      BY <1>d
    <2> QED
      BY <2>a
  <1> QED
    BY <1>e

----
(* What a trace says last. *)

LEMMA LastOfAppended ==
  ASSUME NEW trace \in Seq(Sample), NEW sample \in Sample, NEW object \in TracedObjects
  PROVE  LastOf(Append(trace, sample), object) =
            IF sample.object = object THEN sample.state ELSE LastOf(trace, object)
  <1> DEFINE n == Len(trace)
             long == Append(trace, sample)
             shown == {i \in DOMAIN trace : trace[i].object = object}
             shownLong == {i \in DOMAIN long : long[i].object = object}
  <1>a. /\ n \in Nat /\ DOMAIN trace = 1 .. n /\ DOMAIN long = 1 .. n + 1
        /\ long[n + 1] = sample /\ \A i \in 1 .. n : long[i] = trace[i]
    OBVIOUS
  <1>b. LastOf(long, object) = IF shownLong = {} THEN Unseen
            ELSE long[CHOOSE i \in shownLong : \A j \in shownLong : j <= i].state
    BY DEF LastOf
  <1>c. LastOf(trace, object) = IF shown = {} THEN Unseen
            ELSE trace[CHOOSE i \in shown : \A j \in shown : j <= i].state
    BY DEF LastOf
  <1>d. CASE sample.object = object
    <2>a. n + 1 \in shownLong /\ shownLong \subseteq 1 .. n + 1
      BY <1>a, <1>d
    <2> HIDE DEF shownLong
    <2>b. \A j \in shownLong : j <= n + 1
      BY <1>a, <2>a
    <2>c. (CHOOSE i \in shownLong : \A j \in shownLong : j <= i) = n + 1
      <3> DEFINE last == CHOOSE i \in shownLong : \A j \in shownLong : j <= i
      <3>a. last \in shownLong /\ \A j \in shownLong : j <= last
        BY <2>a, <2>b
      <3> HIDE DEF last
      <3>b. n + 1 <= last /\ last <= n + 1 /\ last \in Int
        BY <1>a, <2>a, <2>b, <3>a
      <3>c. last = n + 1
        BY <1>a, <3>b
      <3> QED
        BY <3>c DEF last
    <2>d. shownLong # {}
      BY <2>a
    <2>e. LastOf(long, object) = long[n + 1].state
      BY <1>b, <2>c, <2>d, Zenon
    <2> QED
      BY <1>a, <1>d, <2>e
  <1>e. CASE sample.object # object
    <2>a. shownLong = shown /\ shown \subseteq 1 .. n
      BY <1>a, <1>e
    <2> HIDE DEF shownLong, shown
    <2>b. CASE shown = {}
      BY <1>b, <1>c, <1>e, <2>a, <2>b
    <2>c. CASE shown # {}
      <3> DEFINE last == CHOOSE i \in shown : \A j \in shown : j <= i
      <3>a. \E i \in shown : \A j \in shown : j <= i
        BY <1>a, <2>a, <2>c, GreatestNatural
      <3>b. last \in 1 .. n
        BY <2>a, <3>a
      <3>c. LastOf(long, object) = long[last].state
        BY <1>b, <2>a, <2>c, Zenon
      <3>d. LastOf(trace, object) = trace[last].state
        BY <1>c, <2>c, Zenon
      <3> HIDE DEF last
      <3> QED
        BY <1>a, <1>e, <3>b, <3>c, <3>d
    <2> QED
      BY <2>b, <2>c
  <1> QED
    BY <1>d, <1>e

LEMMA LastOfNone ==
  ASSUME NEW object \in TracedObjects
  PROVE  LastOf(<<>>, object) = Unseen
  BY DEF LastOf

LEMMA SamplesAreSamples ==
  /\ Other \in Sample
  /\ \A object \in TracedObjects, state \in LayerState : LayerReturn(object, state) \in Sample
  BY DEF Other, Sample, LayerReturn

----
(* Recording. *)

LEMMA RecordedFits ==
  ASSUME NEW trace \in Seq(Sample), NEW samples \in Seq(Sample)
  PROVE  /\ Recorded(trace, samples) \in Seq(Sample)
         /\ ~Overflows(trace, samples) => Recorded(trace, samples) = trace \o samples
  <1> DEFINE both == trace \o samples
  <1>a. both \in Seq(Sample) /\ Len(both) = Len(trace) + Len(samples)
    OBVIOUS
  <1>b. Len(trace) \in Nat /\ Len(samples) \in Nat /\ TraceCapacity \in Nat
    BY TracesAssumption
  <1> HIDE DEF both
  <1> DEFINE kept == IF Len(trace) + Len(samples) < TraceCapacity
                     THEN Len(trace) + Len(samples) ELSE TraceCapacity
  <1>c. kept \in 0 .. Len(both)
    BY <1>a, <1>b
  <1>d. Recorded(trace, samples) = SubSeq(both, 1, kept)
    BY DEF Recorded, both
  <1>e. ~Overflows(trace, samples) => kept = Len(both)
    BY <1>a, <1>b DEF Overflows
  <1> HIDE DEF kept
  <1>f. SubSeq(both, 1, kept) \in Seq(Sample)
    BY <1>a, <1>c
  <1>g. SubSeq(both, 1, Len(both)) = both
    BY <1>a
  <1> QED
    BY <1>d, <1>e, <1>f, <1>g DEF both

\* A trace that leaves nothing out goes on so, whatever else is recorded.
LEMMA OthersAreFaithful ==
  ASSUME NEW trace \in Seq(Sample), NEW dropped \in BOOLEAN, NEW seen,
         NEW samples \in {<<>>, <<Other>>, <<Other, Other>>},
         Faithful(trace, dropped, seen)
  PROVE  /\ Recorded(trace, samples) \in Seq(Sample)
         /\ Faithful(Recorded(trace, samples), dropped \/ Overflows(trace, samples), seen)
  <1>a. Other \in Sample /\ samples \in Seq(Sample)
    <2>a. Other \in Sample
      BY SamplesAreSamples
    <2> HIDE DEF Other
    <2>b. <<>> \in Seq(Sample)
      OBVIOUS
    <2>c. <<Other>> \in Seq(Sample)
      BY <2>a
    <2>d. <<Other, Other>> \in Seq(Sample)
      BY <2>a
    <2> QED
      BY <2>a, <2>b, <2>c, <2>d, Zenon
  <1>b. SUFFICES ASSUME ~dropped, ~Overflows(trace, samples), NEW object \in TracedObjects
                 PROVE  LastOf(trace \o samples, object) = seen[object]
    BY <1>a, RecordedFits DEF Faithful
  <1>c. LastOf(trace, object) = seen[object]
    BY <1>b DEF Faithful
  <1>d. Other.object # object
    BY TracesAssumption DEF Other
  <1> HIDE DEF Other
  <1>e. LastOf(Append(trace, Other), object) = seen[object]
    BY <1>a, <1>c, <1>d, LastOfAppended
  <1>f. CASE samples = <<>>
    <2>a. trace \o <<>> = trace
      OBVIOUS
    <2> QED
      BY <1>c, <1>f, <2>a
  <1>g. CASE samples = <<Other>>
    <2>a. trace \o <<Other>> = Append(trace, Other)
      BY <1>a
    <2> QED
      BY <1>e, <1>g, <2>a
  <1>h. CASE samples = <<Other, Other>>
    <2> DEFINE longer == Append(trace, Other)
    <2>a. longer \in Seq(Sample)
      BY <1>a
    <2>b. trace \o <<Other, Other>> = Append(longer, Other)
      BY <1>a
    <2> HIDE DEF longer
    <2>c. LastOf(Append(longer, Other), object) = LastOf(longer, object)
      BY <1>a, <1>d, <2>a, LastOfAppended
    <2> QED
      BY <1>e, <1>h, <2>b, <2>c DEF longer
  <1> QED
    BY <1>f, <1>g, <1>h

LEMMA ReturnIsFaithful ==
  ASSUME NEW trace \in Seq(Sample), NEW dropped \in BOOLEAN, NEW seen \in SeenStates,
         NEW object \in TracedObjects, NEW state \in LayerState,
         Faithful(trace, dropped, seen)
  PROVE  LET samples == <<LayerReturn(object, state)>>
         IN  /\ Recorded(trace, samples) \in Seq(Sample)
             /\ Faithful(Recorded(trace, samples), dropped \/ Overflows(trace, samples),
                         [seen EXCEPT ![object] = state])
  <1> DEFINE sample == LayerReturn(object, state)
             samples == <<sample>>
  <1>a. sample \in Sample /\ samples \in Seq(Sample)
    BY SamplesAreSamples
  <1>b. sample.object = object /\ sample.state = state
    BY DEF LayerReturn
  <1> HIDE DEF sample
  <1>c. Recorded(trace, samples) \in Seq(Sample)
    BY <1>a, RecordedFits
  <1>d. Faithful(Recorded(trace, samples), dropped \/ Overflows(trace, samples),
                 [seen EXCEPT ![object] = state])
    <2>a. SUFFICES ASSUME ~dropped, ~Overflows(trace, samples), NEW other \in TracedObjects
                   PROVE  LastOf(trace \o samples, other) = [seen EXCEPT ![object] = state][other]
      BY <1>a, RecordedFits DEF Faithful
    <2>b. trace \o samples = Append(trace, sample)
      BY <1>a
    <2>c. LastOf(trace, other) = seen[other]
      BY <2>a DEF Faithful
    <2>d. LastOf(Append(trace, sample), other)
             = IF object = other THEN state ELSE LastOf(trace, other)
      BY <1>a, <1>b, LastOfAppended
    <2> QED
      BY <2>b, <2>c, <2>d DEF SeenStates
  <1> QED
    BY <1>c, <1>d DEF sample

LEMMA EmptyTraceIsFaithful == Faithful(<<>>, FALSE, NothingSeen) /\ <<>> \in Seq(Sample)
  BY LastOfNone DEF Faithful, NothingSeen

LEMMA NewTraceIsFaithful ==
  ASSUME NEW samples \in {<<>>, <<Other>>, <<Other, Other>>}
  PROVE  /\ Recorded(<<>>, samples) \in Seq(Sample)
         /\ Faithful(Recorded(<<>>, samples), Overflows(<<>>, samples), NothingSeen)
  <1>a. Faithful(<<>>, FALSE, NothingSeen) /\ <<>> \in Seq(Sample)
    BY EmptyTraceIsFaithful
  <1>b. Faithful(Recorded(<<>>, samples), FALSE \/ Overflows(<<>>, samples), NothingSeen)
        /\ Recorded(<<>>, samples) \in Seq(Sample)
    BY <1>a, OthersAreFaithful
  <1> QED
    BY <1>b DEF Faithful

----
(* The invariant. *)

AuxTraceInv ==
    /\ auxTrace \in Seq(Sample) /\ auxTraceDropped \in BOOLEAN
    /\ auxSeen \in SeenStates
    /\ auxLast \in Sample
    /\ auxLast # Other => auxSeen[auxLast.object] = auxLast.state
    /\ Faithful(auxTrace, auxTraceDropped, auxSeen)

\* While nothing was dropped, the snapshots are what the layers were seen in.
TutorialTraceInv ==
    /\ tutorialTrace \in Seq(Sample) /\ tutorialTraceDropped \in BOOLEAN
    /\ tutorialSeen \in SeenStates /\ tutorialLayerSnapshots \in SeenStates
    /\ ~tutorialTraceDropped => tutorialLayerSnapshots = tutorialSeen
    /\ Faithful(tutorialTrace, tutorialTraceDropped, tutorialSeen)

Others == {<<>>, <<Other>>, <<Other, Other>>}

LEMMA NothingSeenTyped == NothingSeen \in SeenStates
  BY DEF NothingSeen, SeenStates

LEMMA AuxRecords ==
  ASSUME AuxTraceInv, NEW samples \in Others, Record(samples), UNCHANGED <<auxLast, auxSeen>>
  PROVE  AuxTraceInv'
  <1>a. CASE auxTraceRunning
    <2>a. /\ auxTrace' = Recorded(auxTrace, samples)
          /\ auxTraceDropped' = (auxTraceDropped \/ Overflows(auxTrace, samples))
      BY <1>a DEF Record
    <2>b. Overflows(auxTrace, samples) \in BOOLEAN
      BY DEF Overflows
    <2>c. auxTrace' \in Seq(Sample) /\ Faithful(auxTrace', auxTraceDropped', auxSeen)
      BY <2>a, OthersAreFaithful DEF AuxTraceInv, Others
    <2>d. auxTraceDropped' \in BOOLEAN
      BY <2>a, <2>b
    <2> QED
      BY <2>c, <2>d DEF AuxTraceInv
  <1>b. CASE ~auxTraceRunning
    BY <1>b DEF Record, AuxTraceInv
  <1> QED
    BY <1>a, <1>b

LEMMA AuxRestarts ==
  ASSUME AuxTraceInv, NEW samples \in Others, RecordAuxTrace(samples), ForgetLayers
  PROVE  AuxTraceInv'
  <1>a. CASE Restarts
    <2>a. /\ auxTrace' = Recorded(<<>>, samples)
          /\ auxTraceDropped' = (Overflows(<<>>, samples) \/ (auxTraceDropped /\ FALSE))
          /\ auxLast' = Other /\ auxSeen' = NothingSeen
      BY <1>a DEF RecordAuxTrace, AuxTraceHere, ForgetLayers
    <2>b. auxTraceDropped' = Overflows(<<>>, samples) /\ auxTraceDropped' \in BOOLEAN
      BY <2>a DEF Overflows
    <2>c. auxTrace' \in Seq(Sample) /\ Faithful(auxTrace', auxTraceDropped', NothingSeen)
      BY <2>a, <2>b, NewTraceIsFaithful DEF Others
    <2> QED
      BY <2>a, <2>b, <2>c, NothingSeenTyped, SamplesAreSamples DEF AuxTraceInv
  <1>b. CASE ~Restarts
    <2>a. Record(samples)
      <3>a. CASE auxTraceRunning
        <4>a. /\ auxTrace' = Recorded(auxTrace, samples)
              /\ auxTraceDropped' = (Overflows(auxTrace, samples) \/ (auxTraceDropped /\ TRUE))
          BY <1>b, <3>a DEF RecordAuxTrace, AuxTraceHere
        <4>b. auxTraceDropped' = (auxTraceDropped \/ Overflows(auxTrace, samples))
          BY <4>a DEF Overflows, AuxTraceInv
        <4> QED
          BY <3>a, <4>a, <4>b DEF Record
      <3>b. CASE ~auxTraceRunning
        BY <1>b, <3>b DEF RecordAuxTrace, Record
      <3> QED
        BY <3>a, <3>b
    <2>b. UNCHANGED <<auxLast, auxSeen>>
      BY <1>b DEF ForgetLayers
    <2> QED
      BY <2>a, <2>b, AuxRecords
  <1> QED
    BY <1>a, <1>b

LEMMA AuxCleared ==
  ASSUME NEW on, ClearAuxTrace(on)
  PROVE  AuxTraceInv'
  <1>a. auxTrace' = <<>> /\ auxTraceDropped' = FALSE /\ auxLast' = Other /\ auxSeen' = NothingSeen
    BY DEF ClearAuxTrace
  <1>b. Faithful(<<>>, FALSE, NothingSeen) /\ <<>> \in Seq(Sample)
    BY EmptyTraceIsFaithful
  <1> QED
    BY <1>a, <1>b, NothingSeenTyped, SamplesAreSamples DEF AuxTraceInv

LEMMA AuxKept ==
  ASSUME AuxTraceInv, UNCHANGED <<auxTrace, auxTraceDropped, auxLast, auxSeen>>
  PROVE  AuxTraceInv'
  BY DEF AuxTraceInv

LEMMA AuxUpdateAfterKeeps ==
  ASSUME AuxTraceInv, NEW object \in TracedObjects, NEW state \in LayerState,
         NEW accepted \in BOOLEAN, OnAuxInputLayerUpdateAfter(object, state, accepted)
  PROVE  AuxTraceInv'
  <1> DEFINE sample == LayerReturn(object, state)
  <1>a. /\ auxTraceRunning /\ auxLast' = sample
        /\ auxSeen' = [auxSeen EXCEPT ![object] = state]
    BY DEF OnAuxInputLayerUpdateAfter
  <1>b. auxSeen' \in SeenStates /\ auxSeen'[object] = state
    BY <1>a DEF AuxTraceInv, SeenStates
  <1>c. sample \in Sample /\ sample.object = object /\ sample.state = state
    BY SamplesAreSamples DEF LayerReturn
  <1>d. /\ auxTrace' \in Seq(Sample) /\ auxTraceDropped' \in BOOLEAN
        /\ Faithful(auxTrace', auxTraceDropped', auxSeen')
    <2>a. CASE SeenLast(object, state) /\ ~accepted
      <3>a. UNCHANGED <<auxTrace, auxTraceDropped>> /\ auxLast = sample
        BY <2>a DEF OnAuxInputLayerUpdateAfter, SeenLast
      <3>b. sample # Other
        BY <1>c, TracesAssumption DEF Other
      <3>c. auxSeen[object] = state
        BY <1>c, <3>a, <3>b DEF AuxTraceInv
      <3>d. auxSeen' = auxSeen
        BY <1>a, <3>c DEF AuxTraceInv, SeenStates
      <3> QED
        BY <3>a, <3>d DEF AuxTraceInv
    <2>b. CASE ~(SeenLast(object, state) /\ ~accepted)
      <3>a. /\ auxTrace' = Recorded(auxTrace, <<sample>>)
            /\ auxTraceDropped' = (auxTraceDropped \/ Overflows(auxTrace, <<sample>>))
        BY <1>a, <2>b DEF OnAuxInputLayerUpdateAfter, Record
      <3>b. auxTraceDropped' \in BOOLEAN
        BY <3>a DEF Overflows, AuxTraceInv
      <3>c. auxTrace' \in Seq(Sample) /\ Faithful(auxTrace', auxTraceDropped', auxSeen')
        BY <1>a, <3>a, ReturnIsFaithful DEF AuxTraceInv
      <3> QED
        BY <3>b, <3>c
    <2> QED
      BY <2>a, <2>b
  <1> QED
    BY <1>a, <1>b, <1>c, <1>d DEF AuxTraceInv

LEMMA AuxStep == AuxTraceInv /\ AuxTraceNext => AuxTraceInv'
  <1> SUFFICES ASSUME AuxTraceInv, AuxTraceNext PROVE AuxTraceInv'
    OBVIOUS
  <1>0. <<Other>> \in Others /\ <<Other, Other>> \in Others
    BY DEF Others
  <1>a. CASE DrawAuxTrace
    <2>a. CASE ToggleAuxCapture
      BY <2>a, AuxKept, AuxCleared DEF ToggleAuxCapture
    <2> QED
      BY <1>a, <2>a, AuxCleared DEF DrawAuxTrace
  <1>b. CASE OnSceneTransitionAux
    BY <1>b, AuxCleared DEF OnSceneTransitionAux
  <1>c. CASE OnAuxShopRequest
    BY <1>0, <1>c, AuxRestarts DEF OnAuxShopRequest
  <1>d. CASE OrbListReturn
    BY <1>0, <1>d, AuxRecords DEF OrbListReturn
  <1>e. CASE ManagerHook \/ OnAuxAcceptedAction
    BY <1>0, <1>e, AuxRecords DEF ManagerHook, OnAuxAcceptedAction, Traced
  <1>f. ASSUME NEW object, NEW opening, NEW handler,
               \/ OrbListEnter(object)
               \/ OrbRecipeEnter(handler, opening, object)
               \/ OrbRecipeReturn(opening, object)
        PROVE  AuxTraceInv'
    BY <1>0, <1>f, AuxRestarts, AuxKept
    DEF OrbListEnter, OrbRecipeEnter, OrbRecipeReturn, OnAuxRecipeEvent
  <1>g. ASSUME NEW object \in TracedObjects, PadHook(object) \/ OnAuxInputLayerUpdateBefore(object)
        PROVE  AuxTraceInv'
    BY <1>0, <1>g, AuxRecords DEF PadHook, OnAuxInputLayerUpdateBefore, Traced
  <1>h. ASSUME NEW object \in TracedObjects, NEW state \in LayerState, NEW accepted \in BOOLEAN,
               OnAuxInputLayerUpdateAfter(object, state, accepted)
        PROVE  AuxTraceInv'
    BY <1>h, AuxUpdateAfterKeeps
  <1> QED
    BY <1>a, <1>b, <1>c, <1>d, <1>e, <1>f, <1>g, <1>h DEF AuxTraceNext

LEMMA TutorialRecords ==
  ASSUME TutorialTraceInv, NEW samples \in Others, RecordTutorialTrace(samples),
         UNCHANGED <<tutorialSeen, tutorialLayerSnapshots>>
  PROVE  TutorialTraceInv'
  <1>a. /\ tutorialTrace' = Recorded(tutorialTrace, samples)
        /\ tutorialTraceDropped' = (tutorialTraceDropped \/ Overflows(tutorialTrace, samples))
    BY DEF RecordTutorialTrace
  <1>b. tutorialTrace' \in Seq(Sample) /\ Faithful(tutorialTrace', tutorialTraceDropped', tutorialSeen)
    BY <1>a, OthersAreFaithful DEF TutorialTraceInv, Others
  <1>c. tutorialTraceDropped' \in BOOLEAN /\ (tutorialTraceDropped => tutorialTraceDropped')
    BY <1>a DEF Overflows, TutorialTraceInv
  <1> QED
    BY <1>b, <1>c DEF TutorialTraceInv

LEMMA TutorialReset ==
  ASSUME NEW on, NEW samples \in Others, NEW target,
         ResetTutorialTrace(on, samples, target)
  PROVE  TutorialTraceInv'
  <1>a. /\ tutorialTrace' = Recorded(<<>>, samples)
        /\ tutorialTraceDropped' = Overflows(<<>>, samples)
        /\ tutorialLayerSnapshots' = NothingSeen /\ tutorialSeen' = NothingSeen
    BY DEF ResetTutorialTrace, ClearSnapshots
  <1>b. tutorialTrace' \in Seq(Sample) /\ Faithful(tutorialTrace', tutorialTraceDropped', NothingSeen)
    BY <1>a, NewTraceIsFaithful DEF Others
  <1>c. tutorialTraceDropped' \in BOOLEAN
    BY <1>a DEF Overflows
  <1> QED
    BY <1>a, <1>b, <1>c, NothingSeenTyped DEF TutorialTraceInv

LEMMA TutorialKept ==
  ASSUME TutorialTraceInv,
         UNCHANGED <<tutorialTrace, tutorialTraceDropped, tutorialSeen, tutorialLayerSnapshots>>
  PROVE  TutorialTraceInv'
  BY DEF TutorialTraceInv

LEMMA TutorialUpdateAfterKeeps ==
  ASSUME TutorialTraceInv, NEW object \in TracedObjects, NEW state \in LayerState,
         OnTutorialInputLayerUpdateAfter(object, state)
  PROVE  TutorialTraceInv'
  <1> DEFINE sample == LayerReturn(object, state)
  <1>a. tutorialSeen' = [tutorialSeen EXCEPT ![object] = state] /\ tutorialSeen' \in SeenStates
    BY DEF OnTutorialInputLayerUpdateAfter, TutorialTraceInv, SeenStates
  <1>b. CASE ~(HasSnapshot(object) \/ FreeSnapshot)
    <2>a. /\ tutorialTraceDropped' = TRUE
          /\ UNCHANGED <<tutorialTrace, tutorialLayerSnapshots>>
      BY <1>b DEF OnTutorialInputLayerUpdateAfter
    <2> QED
      BY <1>a, <2>a DEF TutorialTraceInv, Faithful
  <1>c. CASE HasSnapshot(object) \/ FreeSnapshot
    <2>a. /\ tutorialLayerSnapshots' = [tutorialLayerSnapshots EXCEPT ![object] = state]
          /\ IF tutorialLayerSnapshots[object] = state
             THEN UNCHANGED <<tutorialTrace, tutorialTraceDropped>>
             ELSE RecordTutorialTrace(<<sample>>)
      BY <1>c DEF OnTutorialInputLayerUpdateAfter
    <2>b. tutorialLayerSnapshots' \in SeenStates
      BY <2>a DEF TutorialTraceInv, SeenStates
    <2>c. tutorialLayerSnapshots = tutorialSeen => tutorialLayerSnapshots' = tutorialSeen'
      BY <1>a, <2>a
    <2>d. CASE tutorialLayerSnapshots[object] = state
      <3>a. UNCHANGED <<tutorialTrace, tutorialTraceDropped>>
        BY <2>a, <2>d
      <3>b. ~tutorialTraceDropped => tutorialSeen' = tutorialSeen
        BY <1>a, <2>d DEF TutorialTraceInv, SeenStates
      <3>c. Faithful(tutorialTrace', tutorialTraceDropped', tutorialSeen')
        BY <3>a, <3>b DEF TutorialTraceInv, Faithful
      <3> QED
        BY <1>a, <2>b, <2>c, <3>a, <3>c DEF TutorialTraceInv
    <2>e. CASE tutorialLayerSnapshots[object] # state
      <3>a. /\ tutorialTrace' = Recorded(tutorialTrace, <<sample>>)
            /\ tutorialTraceDropped' =
                  (tutorialTraceDropped \/ Overflows(tutorialTrace, <<sample>>))
        BY <2>a, <2>e DEF RecordTutorialTrace
      <3>b. tutorialTraceDropped' \in BOOLEAN /\ (tutorialTraceDropped => tutorialTraceDropped')
        BY <3>a DEF Overflows, TutorialTraceInv
      <3>c. /\ tutorialTrace' \in Seq(Sample)
            /\ Faithful(tutorialTrace', tutorialTraceDropped', tutorialSeen')
        BY <1>a, <3>a, ReturnIsFaithful DEF TutorialTraceInv
      <3> QED
        BY <1>a, <2>b, <2>c, <3>b, <3>c DEF TutorialTraceInv
    <2> QED
      BY <2>d, <2>e
  <1> QED
    BY <1>b, <1>c

LEMMA TutorialStep == TutorialTraceInv /\ TutorialTraceNext => TutorialTraceInv'
  <1> SUFFICES ASSUME TutorialTraceInv, TutorialTraceNext PROVE TutorialTraceInv'
    OBVIOUS
  <1>0. <<>> \in Others /\ <<Other>> \in Others /\ <<Other, Other>> \in Others
    BY DEF Others
  <1>a. CASE DrawTutorialTrace
    <2>a. CASE ToggleTutorialCapture
      BY <1>0, <2>a, TutorialKept, TutorialReset DEF ToggleTutorialCapture
    <2> QED
      BY <1>0, <1>a, <2>a, TutorialReset DEF DrawTutorialTrace
  <1>b. CASE OnTutorialBegin
    BY <1>0, <1>b, TutorialReset DEF OnTutorialBegin
  <1>c. CASE OnTutorialEnd \/ OnTutorialAdvanceAccepted
    BY <1>0, <1>c, TutorialRecords DEF OnTutorialEnd, OnTutorialAdvanceAccepted
  <1>d. CASE CutsceneTraceCaptures
    BY <1>d, TutorialKept DEF CutsceneTraceCaptures
  <1>e. ASSUME NEW object, OnTutorialListenerEvent(object) \/ OnTutorialListenerRegistered(object)
                           \/ OnTutorialAdvanceRequested(object)
        PROVE  TutorialTraceInv'
    BY <1>0, <1>e, TutorialRecords
    DEF OnTutorialListenerEvent, OnTutorialListenerRegistered, OnTutorialAdvanceRequested
  <1>f. ASSUME NEW object, PopupStarts(object) PROVE TutorialTraceInv'
    BY <1>0, <1>f, TutorialReset DEF PopupStarts
  <1>g. ASSUME NEW object, OnTutorialInputLayerUpdateBefore(object) PROVE TutorialTraceInv'
    <2>a. UNCHANGED <<tutorialSeen, tutorialLayerSnapshots>>
      BY <1>g DEF OnTutorialInputLayerUpdateBefore
    <2>b. CASE FreeSnapshot
      BY <1>0, <1>g, <2>a, <2>b, TutorialRecords DEF OnTutorialInputLayerUpdateBefore
    <2>c. CASE ~FreeSnapshot
      <3>a. tutorialTraceDropped' = TRUE /\ UNCHANGED tutorialTrace
        BY <1>g, <2>c DEF OnTutorialInputLayerUpdateBefore
      <3> QED
        BY <2>a, <3>a DEF TutorialTraceInv, Faithful
    <2> QED
      BY <2>b, <2>c
  <1>h. ASSUME NEW object \in TracedObjects, NEW state \in LayerState,
               OnTutorialInputLayerUpdateAfter(object, state)
        PROVE  TutorialTraceInv'
    BY <1>h, TutorialUpdateAfterKeeps
  <1> QED
    BY <1>a, <1>b, <1>c, <1>d, <1>e, <1>f, <1>g, <1>h DEF TutorialTraceNext

\* An empty trace leaves nothing out.
LEMMA TracesInitInv ==
  ASSUME AuxTraceInit, TutorialTraceInit
  PROVE  AuxTraceInv /\ TutorialTraceInv
  <1>a. Faithful(<<>>, FALSE, NothingSeen) /\ <<>> \in Seq(Sample)
    BY EmptyTraceIsFaithful
  <1>b. AuxTraceInv
    BY <1>a, NothingSeenTyped, SamplesAreSamples DEF AuxTraceInit, AuxTraceInv
  <1>c. TutorialTraceInv
    BY <1>a, NothingSeenTyped DEF TutorialTraceInit, TutorialTraceInv
  <1> QED
    BY <1>b, <1>c

\* One trace takes its step while the other is left as it was.
LEMMA TracesStep ==
  (AuxTraceInv /\ TutorialTraceInv)
    /\ [\/ AuxTraceNext /\ UNCHANGED tutorialVars
        \/ TutorialTraceNext /\ UNCHANGED auxVars]_<<auxVars, tutorialVars>>
    => (AuxTraceInv /\ TutorialTraceInv)'
  <1>a. AuxTraceInv /\ UNCHANGED auxVars => AuxTraceInv'
    BY AuxKept DEF auxVars
  <1>b. TutorialTraceInv /\ UNCHANGED tutorialVars => TutorialTraceInv'
    BY TutorialKept DEF tutorialVars
  <1> QED
    BY <1>a, <1>b, AuxStep, TutorialStep

\* SkipTravelProfiler: while a trace counts nothing dropped, it ends for every layer it
\* follows with the state the layer was seen in last.
THEOREM TracesInvariance == TracesSpec => [](AuxTraceInv /\ TutorialTraceInv)
  BY TracesInitInv, TracesStep, PTL DEF TracesSpec

\* Both traces leave out only what did not change, through restarts, new objects and
\* updates within updates.
THEOREM NothingIsLostHolds == TracesSpec => []NothingIsLost
  <1>a. AuxTraceInv /\ TutorialTraceInv => NothingIsLost
    BY DEF AuxTraceInv, TutorialTraceInv, NothingIsLost
  <1> QED
    BY <1>a, TracesInvariance, PTL

----
(* The settings on the card. *)

\* Reading back what a save of one section wrote: that section as it is now, the
\* others as they were.
LEMMA SectionReadsBack ==
    ASSUME ToolSettingsTypeOK, isOn' \in [Section -> BOOLEAN], NEW section \in Section
    PROVE  /\ WithSection(section) \in Table
           /\ \A other \in Section :
                  IsOn(WithSection(section), other)
                      = IF other = section THEN isOn'[section] ELSE IsOn(tasSettings, other)
           /\ HasOlderKey(WithSection(section))
                  = (section # InputBuffer /\ HasOlderKey(tasSettings))
  <1> DEFINE written == WithSection(section)
  <1>a. ExistingTable \in Table
    BY DEF ExistingTable, EmptyTable, Table, Kept, ToolSettingsTypeOK
  <1>b. /\ \A other \in Section : IsOn(tasSettings, other) = (ExistingTable.holds[other] = "On")
        /\ HasOlderKey(tasSettings) = ExistingTable.true_enabled
    <2>a. CASE tasSettings = NoFile
      BY <2>a DEF ExistingTable, EmptyTable, IsOn, HasOlderKey
    <2>b. CASE tasSettings # NoFile
      <3>a. ExistingTable = tasSettings
        BY <2>b DEF ExistingTable
      <3>b. tasSettings.true_enabled \in BOOLEAN
        BY <2>b DEF ToolSettingsTypeOK, Table
      <3> QED BY <2>b, <3>a, <3>b DEF IsOn, HasOlderKey
    <2> QED BY <2>a, <2>b
  <1>c. written \in Table
    BY <1>a DEF WithSection, Table, Kept
  <1>d. written # NoFile
    BY <1>c, ToolSettingsAssumption DEF ToolSettingsAssumption
  <1>e. ASSUME NEW other \in Section
        PROVE  IsOn(written, other)
                   = IF other = section THEN isOn'[section] ELSE IsOn(tasSettings, other)
    <2>a. IsOn(written, other) = (written.holds[other] = "On")
      BY <1>d DEF IsOn
    <2>b. CASE other = section
      <3>a. written.holds[section] = IF isOn'[section] THEN "On" ELSE "Off"
        BY <1>a DEF WithSection, Table
      <3>b. isOn'[section] \in BOOLEAN
        OBVIOUS
      <3> QED BY <2>a, <2>b, <3>a, <3>b
    <2>c. CASE other # section
      <3>a. written.holds[other] = ExistingTable.holds[other]
        BY <1>a, <2>c DEF WithSection, Table
      <3> QED BY <2>a, <2>c, <3>a, <1>b
    <2> QED BY <2>b, <2>c
  <1>f. HasOlderKey(written) = (section # InputBuffer /\ HasOlderKey(tasSettings))
    <2>a. HasOlderKey(written) = written.true_enabled
      <3>a. written.true_enabled \in BOOLEAN
        BY <1>c DEF Table
      <3> QED BY <1>d, <3>a DEF HasOlderKey
    <2>b. written.true_enabled = (ExistingTable.true_enabled /\ section # InputBuffer)
      BY DEF WithSection
    <2> QED BY <2>a, <2>b, <1>b
  <1> QED BY <1>c, <1>e, <1>f

ToolSettingsInv == ToolSettingsTypeOK /\ SettingsAreKept

LEMMA ToolSettingsInitInv == ToolSettingsInit => ToolSettingsInv
  <1> SUFFICES ASSUME ToolSettingsInit PROVE ToolSettingsInv
    OBVIOUS
  <1>a. LayoutIn(layoutFile) \in Layout
    BY ToolSettingsAssumption
    DEF ToolSettingsInit, LayoutIn, DefaultLayout, Layout, ToolSettingsAssumption
  <1>b. LoadedSections \in [Section -> BOOLEAN]
    BY DEF LoadedSections, IsOn
  <1>c. HasOlderKey(tasSettings) \in BOOLEAN
    BY DEF HasOlderKey, Table, ToolSettingsInit
  <1>d. ToolSettingsTypeOK
    BY <1>a, <1>b, <1>c DEF ToolSettingsInit, ToolSettingsTypeOK
  <1>e. SettingsAreKept
    BY DEF ToolSettingsInit, SettingsAreKept, LoadedSections
  <1> QED BY <1>d, <1>e DEF ToolSettingsInv

\* A save of a section, failed or not, leaves the invariant as the module's own
\* setting becomes what it is.
LEMMA SavesKeepSettings ==
    ASSUME ToolSettingsInv, isOn' \in [Section -> BOOLEAN], NEW section \in Section,
           \A other \in Section \ {section} : isOn'[other] = isOn[other],
           SaveSettingsIfChanged(section), UNCHANGED layoutVars
    PROVE  ToolSettingsInv'
  <1> USE DEF layoutVars
  <1>a. CASE /\ ~HasChanged(section)
             /\ UNCHANGED <<lastSavedOn, settingsMigrationNeeded, tasSettings, writeFailed>>
    BY <1>a DEF ToolSettingsInv, ToolSettingsTypeOK, SettingsAreKept, LayoutIn, HasOlderKey,
                IsOn, DefaultLayout
  <1>b. ASSUME SectionSaved(section)
        PROVE  /\ lastSavedOn' \in [Section -> BOOLEAN]
               /\ settingsMigrationNeeded' \in BOOLEAN
               /\ lastSavedOn'[section] = isOn'[section]
               /\ \A other \in Section \ {section} : lastSavedOn'[other] = lastSavedOn[other]
    BY <1>b DEF SectionSaved, ToolSettingsInv, ToolSettingsTypeOK
  <1>c. CASE /\ tasSettings' = WithSection(section) /\ SectionSaved(section)
             /\ UNCHANGED writeFailed
    <2>0. /\ tasSettings' \in Table
          /\ \A other \in Section :
                 IsOn(tasSettings', other)
                     = IF other = section THEN isOn'[section] ELSE IsOn(tasSettings, other)
          /\ HasOlderKey(tasSettings') = (section # InputBuffer /\ HasOlderKey(tasSettings))
      BY <1>c, SectionReadsBack DEF ToolSettingsInv
    <2>a. ToolSettingsTypeOK'
      BY <1>b, <1>c, <2>0 DEF ToolSettingsInv, ToolSettingsTypeOK
    <2>b. ASSUME ~writeFailed', NEW other \in Section
          PROVE  lastSavedOn'[other] = IsOn(tasSettings', other)
      BY <1>b, <1>c, <2>0, <2>b DEF ToolSettingsInv, SettingsAreKept
    <2>c. ASSUME ~writeFailed', settingsMigrationNeeded'
          PROVE  HasOlderKey(tasSettings')
      BY <1>c, <2>0, <2>c DEF ToolSettingsInv, SettingsAreKept, SectionSaved
    <2>d. ASSUME ~writeFailed' PROVE lastSavedLayout' = LayoutIn(layoutFile')
      BY <1>c, <2>d DEF ToolSettingsInv, SettingsAreKept
    <2> QED BY <2>a, <2>b, <2>c, <2>d DEF ToolSettingsInv, SettingsAreKept
  <1>d. CASE /\ tasSettings' \in {tasSettings, NoFile}
             /\ SectionSaved(section) \/ UNCHANGED <<lastSavedOn, settingsMigrationNeeded>>
             /\ writeFailed' = TRUE
    BY <1>b, <1>d DEF ToolSettingsInv, ToolSettingsTypeOK, SettingsAreKept
  <1> QED BY <1>a, <1>c, <1>d DEF SaveSettingsIfChanged

LEMMA LayoutSavesKeepSettings ==
    ASSUME ToolSettingsInv, layout' \in Layout, SaveLayout, UNCHANGED settingsVars
    PROVE  ToolSettingsInv'
  <1> USE DEF settingsVars
  <1>a. CASE layout' = lastSavedLayout /\ UNCHANGED <<lastSavedLayout, layoutFile, writeFailed>>
    BY <1>a DEF ToolSettingsInv, ToolSettingsTypeOK, SettingsAreKept, LayoutIn, HasOlderKey,
                IsOn, DefaultLayout
  <1>b. CASE layoutFile' = layout' /\ lastSavedLayout' = layout' /\ UNCHANGED writeFailed
    <2>a. layoutFile' # NoFile
      BY <1>b, ToolSettingsAssumption DEF ToolSettingsAssumption
    <2>b. LayoutIn(layoutFile') = layout'
      BY <1>b, <2>a DEF LayoutIn
    <2> QED BY <1>b, <2>b DEF ToolSettingsInv, ToolSettingsTypeOK, SettingsAreKept, HasOlderKey,
                              IsOn
  <1>c. CASE /\ layoutFile' \in {layoutFile, NoFile}
             /\ lastSavedLayout' \in {lastSavedLayout, layout'}
             /\ writeFailed' = TRUE
    BY <1>c DEF ToolSettingsInv, ToolSettingsTypeOK, SettingsAreKept
  <1> QED BY <1>a, <1>b, <1>c DEF SaveLayout

LEMMA ToolSettingsStep ==
    ToolSettingsInv /\ [ToolSettingsNext]_toolSettingsVars => ToolSettingsInv'
  <1> SUFFICES ASSUME ToolSettingsInv, [ToolSettingsNext]_toolSettingsVars
               PROVE  ToolSettingsInv'
    OBVIOUS
  <1>a. ASSUME NEW section \in Section, Switch(section) PROVE ToolSettingsInv'
    <2>a. /\ isOn' \in [Section -> BOOLEAN]
          /\ \A other \in Section \ {section} : isOn'[other] = isOn[other]
      BY <1>a DEF Switch, ToolSettingsInv, ToolSettingsTypeOK
    <2> QED BY <1>a, <2>a, SavesKeepSettings DEF Switch
  <1>b. CASE DrawMenu
    <2>a. isOn' = isOn /\ isOn \in [Section -> BOOLEAN] /\ InputBuffer \in Section
      BY <1>b, ToolSettingsAssumption
      DEF DrawMenu, ToolSettingsInv, ToolSettingsTypeOK, ToolSettingsAssumption
    <2> QED BY <1>b, <2>a, SavesKeepSettings DEF DrawMenu
  <1>c. ASSUME NEW window \in ToolWindow, TopBar(window) PROVE ToolSettingsInv'
    <2>a. layout' \in Layout
      BY <1>c DEF TopBar, Layout, ToolSettingsInv, ToolSettingsTypeOK
    <2> QED BY <1>c, <2>a, LayoutSavesKeepSettings DEF TopBar
  <1>d. ASSUME NEW window \in ToolWindow, CloseWindow(window) PROVE ToolSettingsInv'
    <2>a. layout' \in Layout
      BY <1>d DEF CloseWindow, Layout, ToolSettingsInv, ToolSettingsTypeOK
    <2> QED BY <1>d, <2>a DEF CloseWindow, settingsVars, ToolSettingsInv, ToolSettingsTypeOK,
                              SettingsAreKept, HasOlderKey, IsOn, LayoutIn, DefaultLayout
  <1>e. CASE DrawWindow
    <2>a. layout' \in Layout
      BY <1>e DEF DrawWindow, Layout, ToolSettingsInv, ToolSettingsTypeOK
    <2> QED BY <1>e, <2>a, LayoutSavesKeepSettings DEF DrawWindow
  <1>f. CASE Restart
    <2>a. LayoutIn(layoutFile) \in Layout
      BY ToolSettingsAssumption
      DEF LayoutIn, DefaultLayout, Layout, ToolSettingsInv, ToolSettingsTypeOK,
          ToolSettingsAssumption
    <2>b. LoadedSections \in [Section -> BOOLEAN]
      BY DEF LoadedSections, IsOn
    <2>c. HasOlderKey(tasSettings) \in BOOLEAN
      BY DEF HasOlderKey, Table, ToolSettingsInv, ToolSettingsTypeOK
    <2>d. ToolSettingsTypeOK'
      BY <1>f, <2>a, <2>b, <2>c DEF Restart, ToolSettingsInv, ToolSettingsTypeOK
    <2>e. SettingsAreKept'
      BY <1>f DEF Restart, SettingsAreKept, LoadedSections, HasOlderKey, IsOn, LayoutIn,
                  DefaultLayout
    <2> QED BY <2>d, <2>e DEF ToolSettingsInv
  <1>g. CASE UNCHANGED toolSettingsVars
    BY <1>g DEF toolSettingsVars, settingsVars, layoutVars, ToolSettingsInv, ToolSettingsTypeOK,
                SettingsAreKept, HasOlderKey, IsOn, LayoutIn, DefaultLayout
  <1> QED BY <1>a, <1>b, <1>c, <1>d, <1>e, <1>f, <1>g DEF ToolSettingsNext

\* Whatever sections and windows there are, and however the modules take turns at
\* rewriting the files: until a write fails, every module finds on the card what it
\* takes for saved.
THEOREM SettingsAreKeptHolds == ToolSettingsSpec => []SettingsAreKept
  <1>a. ToolSettingsInv => SettingsAreKept
    BY DEF ToolSettingsInv
  <1> QED BY <1>a, ToolSettingsInitInv, ToolSettingsStep, PTL DEF ToolSettingsSpec

----
(* The visualizer's models and the tutorial tools.  The proof treats the list of *)
(* one kind of trigger as a sequence of entries whose models are its own; a step *)
(* changes one list, and the exception to the blocked tutorials is fresh.        *)

----
(* One list of entries. *)

\* What the models depend on; the whole of TriggersTypeOK is not needed for it.
Registered == registry \in [Kinds -> Seq(Entry)] /\ flag \in Flags

\* A list made from another by a change of each entry.
LEMMA ChangedList ==
  ASSUME NEW s \in Seq(Entry), NEW f, f = [i \in DOMAIN s |-> f[i]],
         \A i \in DOMAIN s : f[i] \in Entry
  PROVE  f \in Seq(Entry) /\ Len(f) = Len(s) /\ DOMAIN f = DOMAIN s
  <1>a. DOMAIN s = 1 .. Len(s) /\ Len(s) \in Nat
    OBVIOUS
  <1>b. f = [i \in 1 .. Len(s) |-> f[i]] /\ \A i \in 1 .. Len(s) : f[i] \in Entry
    BY <1>a
  <1>c. f \in [1 .. Len(s) -> Entry]
    BY <1>b
  <1> QED
    BY <1>a, <1>c

LEMMA OwnedBy ==
  ASSUME NEW s, NEW h
  PROVE  h \in Owned(s) <=> h # NoHandle /\ \E i \in DOMAIN s : s[i].model = h
  BY DEF Owned

\* A kind's models are exchanged for some of them and some new objects.
LEMMA ModelsReplaced ==
  ASSUME ModelsAreOwned, Registered, NEW k \in Kinds, NEW U, NEW G,
         G \cap live = {}, NoHandle \notin G,
         registry' = [registry EXCEPT ![k] = U],
         Owned(U) \subseteq Owned(registry[k]) \cup G,
         \A i, h \in DOMAIN U : U[i].model = U[h].model /\ U[i].model # NoHandle => i = h,
         live' = (live \cup G) \ ((Owned(registry[k]) \cup G) \ Owned(U)),
         IsSceneTransitionActive' => live' = {}
  PROVE  ModelsAreOwned'
  <1>a. registry'[k] = U /\ \A j \in Kinds \ {k} : registry'[j] = registry[j]
    BY DEF Registered
  <1>b. \A j \in Kinds : Owned(registry[j]) \subseteq live
    BY DEF ModelsAreOwned
  <1>c. \A j \in Kinds \ {k} : Owned(registry[j]) \cap (Owned(registry[k]) \cup G) = {}
    <2> SUFFICES ASSUME NEW j \in Kinds \ {k}, NEW x \in Owned(registry[j]),
                        x \in Owned(registry[k])
                 PROVE  FALSE
      BY <1>b
    <2>a. PICK i \in DOMAIN registry[j] : registry[j][i].model = x /\ x # NoHandle
      BY OwnedBy
    <2>b. PICK h \in DOMAIN registry[k] : registry[k][h].model = x
      BY OwnedBy
    <2> QED
      BY <2>a, <2>b DEF ModelsAreOwned
  <1>d. live' = UNION {Owned(registry'[j]) : j \in Kinds}
    <2>a. ASSUME NEW x \in live' PROVE \E j \in Kinds : x \in Owned(registry'[j])
      <3>a. CASE x \in Owned(U)
        BY <1>a, <3>a
      <3>b. CASE x \notin Owned(U)
        <4>a. x \in live /\ x \notin Owned(registry[k])
          BY <2>a, <3>b
        <4>b. PICK j \in Kinds : x \in Owned(registry[j])
          BY <4>a DEF ModelsAreOwned
        <4> QED
          BY <1>a, <4>a, <4>b
      <3> QED
        BY <3>a, <3>b
    <2>b. ASSUME NEW j \in Kinds, NEW x \in Owned(registry'[j]) PROVE x \in live'
      <3>a. CASE j = k
        BY <1>a, <1>b, <2>b, <3>a
      <3>b. CASE j # k
        BY <1>a, <1>b, <1>c, <2>b, <3>b
      <3> QED
        BY <3>a, <3>b
    <2> QED
      BY <2>a, <2>b
  <1>e. ASSUME NEW j \in Kinds, NEW m \in Kinds,
               NEW i \in DOMAIN registry'[j], NEW h \in DOMAIN registry'[m],
               registry'[j][i].model = registry'[m][h].model, registry'[j][i].model # NoHandle
        PROVE  j = m /\ i = h
    <2> DEFINE x == registry'[j][i].model
    <2>a. x \in Owned(registry'[j]) /\ x \in Owned(registry'[m])
      BY <1>e, OwnedBy
    <2>b. CASE j = k /\ m = k
      BY <1>a, <1>e, <2>b
    <2>c. CASE j = k /\ m # k
      BY <1>a, <1>c, <2>a, <2>c
    <2>d. CASE j # k /\ m = k
      BY <1>a, <1>c, <2>a, <2>d
    <2>e. CASE j # k /\ m # k
      BY <1>a, <1>e, <2>e DEF ModelsAreOwned
    <2> QED
      BY <2>b, <2>c, <2>d, <2>e
  <1> QED
    BY <1>d, <1>e DEF ModelsAreOwned

\* The entries keep their models, and those that join them have none.
SameModels(old, new) ==
    /\ DOMAIN old \subseteq DOMAIN new
    /\ \A i \in DOMAIN old : new[i].model = old[i].model
    /\ \A i \in DOMAIN new \ DOMAIN old : new[i].model = NoHandle

LEMMA ModelsKept ==
  ASSUME ModelsAreOwned, Registered, NEW k \in Kinds, NEW U, SameModels(registry[k], U),
         registry' = [registry EXCEPT ![k] = U], UNCHANGED <<live, sceneTransition>>
  PROVE  ModelsAreOwned'
  <1>a. Owned(U) = Owned(registry[k])
    <2>a. ASSUME NEW x \in Owned(U) PROVE x \in Owned(registry[k])
      <3>a. PICK i \in DOMAIN U : U[i].model = x /\ x # NoHandle
        BY OwnedBy
      <3> QED
        BY <3>a, OwnedBy DEF SameModels
    <2>b. ASSUME NEW x \in Owned(registry[k]) PROVE x \in Owned(U)
      BY OwnedBy DEF SameModels
    <2> QED
      BY <2>a, <2>b
  <1>b. \A i, h \in DOMAIN U : U[i].model = U[h].model /\ U[i].model # NoHandle => i = h
    <2>a. \A i, h \in DOMAIN registry[k] :
             registry[k][i].model = registry[k][h].model /\ registry[k][i].model # NoHandle
                => i = h
      BY DEF ModelsAreOwned
    <2> QED
      BY <2>a DEF SameModels
  <1>c. IsSceneTransitionActive' => live' = {}
    BY DEF ModelsAreOwned, IsSceneTransitionActive
  <1>d. live' = (live \cup {}) \ ((Owned(registry[k]) \cup {}) \ Owned(U))
    BY <1>a
  <1> QED
    BY <1>a, <1>b, <1>c, <1>d, ModelsReplaced

----
(* Entries and lists of them. *)

LEMMA EntryChanges ==
  ASSUME NEW e \in Entry
  PROVE  /\ \A h \in BOOLEAN : [e EXCEPT !.hasShape = h] \in Entry
         /\ \A b \in BOOLEAN : [e EXCEPT !.repeatSuppressedUntilExit = b] \in Entry
         /\ \A m \in Handles \cup {NoHandle} : [e EXCEPT !.model = m] \in Entry
         /\ \A b \in BOOLEAN : [e EXCEPT !.rendering = b] \in Entry
         /\ \A n \in {"Unchecked", "Valid", "Rejected"} : [e EXCEPT !.name = n] \in Entry
  BY DEF Entry

LEMMA FlagIsTyped ==
  ASSUME Registered, NEW t \in Tutorials
  PROVE  flag[t] \in FlagId
  BY DEF Registered, Flags

LEMMA NewEntryIsTyped ==
  ASSUME Registered, NEW object \in Trigger
  PROVE  NewEntry(object) \in Entry
  <1>a. (IF object \in Tutorials THEN flag[object] ELSE NoFlag) \in FlagId \cup {NoFlag}
    BY FlagIsTyped
  <1> QED
    BY <1>a DEF NewEntry, Entry

\* A list with an object entered: the old entries, and at most a new one.
LEMMA EnteredList ==
  ASSUME Registered, NEW k \in Kinds, NEW object \in Trigger
  PROVE  /\ Entered(k, object) \in Seq(Entry)
         /\ DOMAIN registry[k] \subseteq DOMAIN Entered(k, object)
         /\ Len(Entered(k, object)) >= Len(registry[k])
         /\ \A i \in DOMAIN registry[k] : Entered(k, object)[i] = registry[k][i]
         /\ \A i \in DOMAIN Entered(k, object) \ DOMAIN registry[k] :
               /\ Entered(k, object)[i] = NewEntry(object)
               /\ Len(registry[k]) < MaxEntries[k]
               /\ Find(k, object) = {}
               /\ ~IsSceneTransitionActive
         /\ ~IsSceneTransitionActive /\ Len(registry[k]) < MaxEntries[k]
              => \E i \in DOMAIN Entered(k, object) : Entered(k, object)[i].object = object
  <1> DEFINE s == registry[k]
  <1>a. s \in Seq(Entry) /\ DOMAIN s = 1 .. Len(s) /\ Len(s) \in Nat
    BY DEF Registered
  <1>b. CASE IsSceneTransitionActive \/ Find(k, object) # {} \/ Len(s) >= MaxEntries[k]
    <2>a. Entered(k, object) = s
      BY <1>b DEF Entered
    <2>b. ~IsSceneTransitionActive /\ Len(s) < MaxEntries[k] => Find(k, object) # {}
      BY <1>a, <1>b, TriggersAssumption
    <2> QED
      BY <1>a, <2>a, <2>b DEF Find
  <1>c. CASE ~(IsSceneTransitionActive \/ Find(k, object) # {} \/ Len(s) >= MaxEntries[k])
    <2> DEFINE e == NewEntry(object)
    <2>a. Entered(k, object) = Append(s, e) /\ e \in Entry /\ e.object = object
      BY <1>c, NewEntryIsTyped DEF Entered, NewEntry
    <2> HIDE DEF s, e
    <2>b. /\ Append(s, e) \in Seq(Entry) /\ Len(Append(s, e)) = Len(s) + 1
          /\ DOMAIN Append(s, e) = 1 .. Len(s) + 1
          /\ Append(s, e)[Len(s) + 1] = e
          /\ \A i \in 1 .. Len(s) : Append(s, e)[i] = s[i]
      BY <1>a, <2>a
    <2>c. /\ DOMAIN s \subseteq DOMAIN Append(s, e) /\ Len(Append(s, e)) >= Len(s)
          /\ \A i \in DOMAIN s : Append(s, e)[i] = s[i]
      BY <1>a, <2>b
    <2>d. \A i \in DOMAIN Append(s, e) \ DOMAIN s : i = Len(s) + 1
      BY <1>a, <2>b
    <2>e. Len(s) + 1 \in DOMAIN Append(s, e)
      BY <1>a, <2>b
    <2>f. Len(s) < MaxEntries[k]
      BY <1>a, <1>c, TriggersAssumption DEF s
    <2> QED
      BY <1>c, <2>a, <2>b, <2>c, <2>d, <2>e, <2>f DEF s, e
  <1> QED
    BY <1>b, <1>c

\* What a capture leaves of a list.
LEMMA CapturedList ==
  ASSUME NEW s \in Seq(Entry), NEW object, NEW hasShape \in BOOLEAN
  PROVE  /\ Captured(object, hasShape, s) \in Seq(Entry)
         /\ DOMAIN Captured(object, hasShape, s) = DOMAIN s
         /\ \A i \in DOMAIN s : Captured(object, hasShape, s)[i].model = s[i].model
  <1> DEFINE f == Captured(object, hasShape, s)
             e(i) == [s[i] EXCEPT !.hasShape = hasShape]
  <1>a. \A i \in DOMAIN s : s[i] \in Entry
    OBVIOUS
  <1>b. \A i \in DOMAIN s : e(i) \in Entry /\ e(i).model = s[i].model
    BY <1>a, EntryChanges DEF Entry
  <1>c. f = [i \in DOMAIN s |-> f[i]] /\ \A i \in DOMAIN s : f[i] = s[i] \/ f[i] = e(i)
    BY DEF Captured
  <1> HIDE DEF f, e
  <1>d. \A i \in DOMAIN s : f[i] \in Entry /\ f[i].model = s[i].model
    BY <1>a, <1>b, <1>c
  <1>e. f \in Seq(Entry) /\ DOMAIN f = DOMAIN s
    BY <1>c, <1>d, ChangedList
  <1> QED
    BY <1>d, <1>e DEF f

\* An entry that a tutorial's capture has read again.
LEMMA RecapturedEntry ==
  ASSUME Registered, NEW e \in Entry, NEW t \in Tutorials, NEW hasShape \in BOOLEAN
  PROVE  LET r == Recaptured(e, t, hasShape)
         IN  /\ r \in Entry /\ r.model = e.model /\ r.object = e.object
             /\ r.inside = (t \in within) /\ r.flagId = flag[t]
             /\ e.flagId = flag[t] =>
                   r.repeatSuppressedUntilExit = e.repeatSuppressedUntilExit
  <1> DEFINE r == Recaptured(e, t, hasShape)
             inside == t \in within
             still == e.flagId = flag[t] /\ e.repeatSuppressedUntilExit
             f == flag[t]
             e1 == [e EXCEPT !.hasShape = hasShape]
             e2 == [e1 EXCEPT !.inside = inside]
             e3 == [e2 EXCEPT !.flagId = f]
             e4 == [e3 EXCEPT !.repeatSuppressedUntilExit = still]
  <1>a. r = e4
    BY Zenon DEF Recaptured, Entry
  <1>b. f \in FlagId /\ inside \in BOOLEAN /\ still \in BOOLEAN
        /\ (e.flagId = f => still = e.repeatSuppressedUntilExit)
    BY FlagIsTyped DEF Entry
  <1> HIDE DEF r, inside, still
  <1>c. e1 \in Entry /\ e1.model = e.model /\ e1.object = e.object
    BY DEF Entry
  <1> HIDE DEF e1
  <1>d. e2 \in Entry /\ e2.model = e.model /\ e2.object = e.object /\ e2.inside = inside
    BY <1>b, <1>c DEF Entry
  <1> HIDE DEF e2
  <1>e. /\ e3 \in Entry /\ e3.model = e.model /\ e3.object = e.object
        /\ e3.inside = inside /\ e3.flagId = f
    BY <1>b, <1>d DEF Entry
  <1> HIDE DEF e3
  <1>f. /\ e4 \in Entry /\ e4.model = e.model /\ e4.object = e.object
        /\ e4.inside = inside /\ e4.flagId = f /\ e4.repeatSuppressedUntilExit = still
    BY <1>b, <1>e DEF Entry
  <1> HIDE DEF e4
  <1> QED
    BY <1>a, <1>b, <1>f DEF r, inside

\* The same of a tutorial's capture, which may find another tutorial in the object.
LEMMA CapturedTutorialList ==
  ASSUME Registered, NEW s \in Seq(Entry), NEW t \in Tutorials, NEW hasShape \in BOOLEAN
  PROVE  /\ CapturedTutorial(t, hasShape, s) \in Seq(Entry)
         /\ DOMAIN CapturedTutorial(t, hasShape, s) = DOMAIN s
         /\ Len(CapturedTutorial(t, hasShape, s)) = Len(s)
         /\ \A i \in DOMAIN s :
               LET c == CapturedTutorial(t, hasShape, s)[i]
               IN  /\ c.model = s[i].model /\ c.object = s[i].object
                   /\ s[i].object # t => c = s[i]
                   /\ s[i].flagId = flag[t] =>
                         /\ c.flagId = flag[t]
                         /\ c.repeatSuppressedUntilExit = s[i].repeatSuppressedUntilExit
                   /\ ~IsSceneTransitionActive /\ s[i].object = t
                        => c.inside = (t \in within) /\ c.flagId = flag[t]
  <1> DEFINE f == CapturedTutorial(t, hasShape, s)
  <1>a. /\ f = [i \in DOMAIN s |-> f[i]]
        /\ \A i \in DOMAIN s : f[i] = IF s[i].object # t \/ IsSceneTransitionActive
                                      THEN s[i] ELSE Recaptured(s[i], t, hasShape)
    BY DEF CapturedTutorial
  <1> HIDE DEF f
  <1>b. ASSUME NEW i \in DOMAIN s
        PROVE  /\ f[i] \in Entry /\ f[i].model = s[i].model /\ f[i].object = s[i].object
               /\ s[i].object # t => f[i] = s[i]
               /\ s[i].flagId = flag[t] =>
                     /\ f[i].flagId = flag[t]
                     /\ f[i].repeatSuppressedUntilExit = s[i].repeatSuppressedUntilExit
               /\ ~IsSceneTransitionActive /\ s[i].object = t
                    => f[i].inside = (t \in within) /\ f[i].flagId = flag[t]
    <2>a. s[i] \in Entry
      OBVIOUS
    <2>b. CASE s[i].object # t \/ IsSceneTransitionActive
      <3>a. f[i] = s[i]
        BY <1>a, <2>b
      <3> QED
        BY <2>a, <2>b, <3>a
    <2>c. CASE ~(s[i].object # t \/ IsSceneTransitionActive)
      <3>a. f[i] = Recaptured(s[i], t, hasShape)
        BY <1>a, <2>c
      <3> QED
        BY <2>a, <2>c, <3>a, RecapturedEntry
    <2> QED
      BY <2>b, <2>c
  <1>c. f \in Seq(Entry) /\ Len(f) = Len(s) /\ DOMAIN f = DOMAIN s
    BY <1>a, <1>b, ChangedList
  <1> QED
    BY <1>b, <1>c DEF f

\* The models' part of Update, entry by entry: objects and repeats stay, and a model
\* stays, goes, or is the new one.
Retained(old, new) ==
    /\ new \in Entry
    /\ new.object = old.object
    /\ new.repeatSuppressedUntilExit = old.repeatSuppressedUntilExit
    /\ new.flagId = old.flagId
    /\ new.model \in {old.model, NoHandle}

LEMMA DestroyedEntry ==
  ASSUME NEW e \in Entry
  PROVE  Retained(e, Destroyed(e))
         /\ \A n \in {"Unchecked", "Valid", "Rejected"} :
               /\ Retained(e, [Destroyed(e) EXCEPT !.name = n])
               /\ [Destroyed(e) EXCEPT !.name = n].model = NoHandle
  BY DEF Destroyed, Retained, Entry

LEMMA ShownEntry ==
  ASSUME NEW e \in Entry, NEW loaded
  PROVE  Retained(e, Shown(e, loaded)) /\ Shown(e, loaded).model = e.model
  <1>a. (e.object \in loaded) \in BOOLEAN
    OBVIOUS
  <1>b. [e EXCEPT !.rendering = e.object \in loaded] \in Entry
    BY <1>a, EntryChanges
  <1> QED
    BY <1>b DEF Shown, Retained, Entry

LEMMA CheckedEntry ==
  ASSUME NEW e \in Entry, NEW k, NEW expected, NEW others
  PROVE  /\ Retained(e, Checked(k, e, expected, others))
         /\ Checked(k, e, expected, others).model =
               IF Rejected(k, e, others) THEN NoHandle ELSE e.model
  <1>a. Retained(e, e) /\ Retained(e, [e EXCEPT !.name = "Valid"])
        /\ [e EXCEPT !.name = "Valid"].model = e.model
    BY DEF Retained, Entry
  <1>b. CASE Rejected(k, e, others)
    <2>a. Checked(k, e, expected, others) = [Destroyed(e) EXCEPT !.name = "Rejected"]
      BY <1>b DEF Checked
    <2> QED
      BY <1>b, <2>a, DestroyedEntry
  <1>c. CASE ~Rejected(k, e, others)
    <2>a. Checked(k, e, expected, others) \in {e, [e EXCEPT !.name = "Valid"]}
      BY <1>c DEF Checked
    <2> QED
      BY <1>a, <1>c, <2>a
  <1> QED
    BY <1>b, <1>c

LEMMA RefreshedList ==
  ASSUME Registered, NEW k \in Kinds, NEW positioned
  PROVE  /\ Refreshed(k, positioned) \in Seq(Entry)
         /\ DOMAIN Refreshed(k, positioned) = DOMAIN registry[k]
         /\ Len(Refreshed(k, positioned)) = Len(registry[k])
         /\ \A i \in DOMAIN registry[k] :
               LET e == Refreshed(k, positioned)[i]
               IN  /\ e.model = registry[k][i].model /\ e.object = registry[k][i].object
                   /\ e.repeatSuppressedUntilExit = registry[k][i].repeatSuppressedUntilExit
                   /\ e.flagId = registry[k][i].flagId
  <1> DEFINE s == registry[k]
             f == Refreshed(k, positioned)
             e(i) == [s[i] EXCEPT !.hasShape = s[i].object \in positioned]
  <1>a. s \in Seq(Entry) /\ \A i \in DOMAIN s : s[i] \in Entry
    BY DEF Registered
  <1>b. CASE k # "collection"
    BY <1>a, <1>b DEF Refreshed
  <1>c. CASE k = "collection"
    <2>a. \A i \in DOMAIN s : (s[i].object \in positioned) \in BOOLEAN
      OBVIOUS
    <2>b. \A i \in DOMAIN s : e(i) \in Entry
      BY <1>a, <2>a, EntryChanges
    <2>c. \A i \in DOMAIN s :
             /\ e(i).model = s[i].model /\ e(i).object = s[i].object
             /\ e(i).repeatSuppressedUntilExit = s[i].repeatSuppressedUntilExit
             /\ e(i).flagId = s[i].flagId
      BY <1>a DEF Entry
    <2>d. f = [i \in DOMAIN s |-> f[i]] /\ \A i \in DOMAIN s : f[i] = e(i)
      BY <1>c DEF Refreshed
    <2> HIDE DEF s, f, e
    <2>e. \A i \in DOMAIN s : f[i] \in Entry
      BY <2>b, <2>d
    <2>f. f \in Seq(Entry) /\ Len(f) = Len(s) /\ DOMAIN f = DOMAIN s
      BY <1>a, <2>d, <2>e, ChangedList
    <2>g. \A i \in DOMAIN s :
             /\ f[i].model = s[i].model /\ f[i].object = s[i].object
             /\ f[i].repeatSuppressedUntilExit = s[i].repeatSuppressedUntilExit
             /\ f[i].flagId = s[i].flagId
      BY <2>c, <2>d
    <2> QED
      BY <2>f, <2>g DEF s, f
  <1> QED
    BY <1>b, <1>c

\* A list with at most one new model, its other entries shown.
LEMMA UpdatedList ==
  ASSUME NEW s \in Seq(Entry), NEW new, NEW handle \in Handles \cup {NoHandle}, NEW loaded
  PROVE  LET f == UpdatedModels(s, new, handle, loaded)
         IN  /\ f \in Seq(Entry) /\ DOMAIN f = DOMAIN s /\ Len(f) = Len(s)
             /\ \A i \in DOMAIN s :
                   /\ f[i].object = s[i].object
                   /\ f[i].repeatSuppressedUntilExit = s[i].repeatSuppressedUntilExit
                   /\ f[i].flagId = s[i].flagId
                   /\ f[i].model = IF i = new THEN handle ELSE s[i].model
  <1> DEFINE f == UpdatedModels(s, new, handle, loaded)
  <1>a. \A i \in DOMAIN s : s[i] \in Entry
    OBVIOUS
  <1>b. /\ f = [i \in DOMAIN s |-> f[i]]
        /\ \A i \in DOMAIN s :
              f[i] = IF i = new THEN [s[i] EXCEPT !.model = handle] ELSE Shown(s[i], loaded)
    BY DEF UpdatedModels
  <1> HIDE DEF f
  <1>c. ASSUME NEW i \in DOMAIN s
        PROVE  /\ f[i] \in Entry /\ f[i].object = s[i].object
               /\ f[i].repeatSuppressedUntilExit = s[i].repeatSuppressedUntilExit
               /\ f[i].flagId = s[i].flagId
               /\ f[i].model = IF i = new THEN handle ELSE s[i].model
    <2>a. CASE i = new
      BY <1>a, <1>b, <2>a DEF Entry
    <2>b. CASE i # new
      BY <1>a, <1>b, <2>b, ShownEntry DEF Retained
    <2> QED
      BY <2>a, <2>b
  <1>d. f \in Seq(Entry) /\ Len(f) = Len(s) /\ DOMAIN f = DOMAIN s
    BY <1>b, <1>c, ChangedList
  <1> QED
    BY <1>c, <1>d DEF f

----
(* The invariant. *)

\* The exception of a tutorial's control lock, while it lasts, is for a lock that was
\* not released yet; a lock that is held was seen by it.
ExceptionIsFresh ==
    /\ control \in [trigger : Tutorials \cup {NoTrigger}, observed : BOOLEAN, arm : 0 .. ArmFrames]
    /\ lock \in {"Awaited", "Held", "Released"}
    /\ control.trigger # NoTrigger =>
          lock # "Released" /\ (lock = "Held" => control.observed)
    /\ bypass => lock # "Released"

\* With the two options on, a tutorial that has begun is suppressed in its entry,
\* which notes the flag the tutorial has, and one without an entry finds no room for one.
SuppressedOnceBegun ==
    /\ begun \subseteq Tutorials
    /\ repeatTutorialFlag /\ pauseTutorialRepeatUntilExit =>
        \A t \in begun :
            /\ \A i \in DOMAIN registry["tutorial"] : registry["tutorial"][i].object = t
                  => /\ registry["tutorial"][i].repeatSuppressedUntilExit
                     /\ registry["tutorial"][i].flagId = flag[t]
            /\ (\A i \in DOMAIN registry["tutorial"] : registry["tutorial"][i].object # t)
                  => Len(registry["tutorial"]) >= MaxEntries["tutorial"]

\* While the scene goes, the four lists are empty.
EmptyInTransition ==
    IsSceneTransitionActive => \A k \in Kinds : DOMAIN registry[k] = {}

TriggersInv == Registered /\ ModelsAreOwned /\ EmptyInTransition /\ ExceptionIsFresh
                /\ SuppressedOnceBegun

LEMMA EmptyKept ==
  ASSUME EmptyInTransition, Registered, NEW k \in Kinds, NEW U,
         registry' = [registry EXCEPT ![k] = U], UNCHANGED sceneTransition,
         IsSceneTransitionActive => DOMAIN U = DOMAIN registry[k]
  PROVE  EmptyInTransition'
  BY DEF EmptyInTransition, IsSceneTransitionActive, Registered

LEMMA TriggersInitInv == TriggersInit => TriggersInv
  <1> SUFFICES ASSUME TriggersInit PROVE TriggersInv
    OBVIOUS
  <1> USE DEF TriggersInit
  <1>a. Registered
    BY DEF Registered
  <1>b. \A k \in Kinds : DOMAIN registry[k] = {} /\ Owned(registry[k]) = {}
    BY DEF Owned
  <1>c. ModelsAreOwned /\ EmptyInTransition
    BY <1>b DEF ModelsAreOwned, EmptyInTransition, SceneTransitionInit, IsSceneTransitionActive
  <1>d. ExceptionIsFresh
    BY TriggersAssumption DEF ExceptionIsFresh, NoControl
  <1>e. SuppressedOnceBegun
    BY DEF SuppressedOnceBegun
  <1> QED
    BY <1>a, <1>c, <1>d, <1>e DEF TriggersInv

\* A step that changes one list, entering objects at most and leaving the tutorials'
\* suppression alone.
LEMMA ListChanges ==
  ASSUME Registered, NEW k \in Kinds, NEW U \in Seq(Entry),
         registry' = [registry EXCEPT ![k] = U], UNCHANGED flag
  PROVE  /\ Registered'
         /\ registry'[k] = U /\ \A j \in Kinds \ {k} : registry'[j] = registry[j]
  BY DEF Registered

LEMMA SuppressionStays ==
  ASSUME SuppressedOnceBegun, UNCHANGED <<repeatTutorialFlag, pauseTutorialRepeatUntilExit, flag>>,
         begun' \subseteq begun,
         DOMAIN registry["tutorial"] = DOMAIN registry'["tutorial"],
         Len(registry["tutorial"]) = Len(registry'["tutorial"]),
         \A i \in DOMAIN registry["tutorial"] :
            /\ registry'["tutorial"][i].object = registry["tutorial"][i].object
            /\ registry'["tutorial"][i].repeatSuppressedUntilExit
                 = registry["tutorial"][i].repeatSuppressedUntilExit
            /\ registry'["tutorial"][i].flagId = registry["tutorial"][i].flagId
  PROVE  SuppressedOnceBegun'
  BY DEF SuppressedOnceBegun

LEMMA CaptureSteps ==
  ASSUME TriggersInv, NEW k \in Kinds, NEW object \in Trigger, k # "tutorial",
         NEW hasShape \in BOOLEAN,
         \/ registry' = [registry EXCEPT ![k] = Captured(object, hasShape, Entered(k, object))]
         \/ registry' = [registry EXCEPT ![k] = CapturedPoint(object, hasShape, Entered(k, object))],
         UNCHANGED <<options, control, live, game, bypass, lock, begun, sceneTransition>>
  PROVE  TriggersInv'
  <1> DEFINE s == Entered(k, object)
  <1>0. UNCHANGED <<flag, live, sceneTransition>>
    BY DEF game
  <1>a. s \in Seq(Entry) /\ SameModels(registry[k], s)
    <2>a. NewEntry(object).model = NoHandle
      BY DEF NewEntry
    <2> QED
      BY <2>a, EnteredList DEF SameModels, TriggersInv
  <1>b. PICK U \in Seq(Entry) : /\ registry' = [registry EXCEPT ![k] = U]
                                /\ DOMAIN U = DOMAIN s
                                /\ \A i \in DOMAIN s : U[i].model = s[i].model
    <2> DEFINE C == Captured(object, hasShape, s)
               P == CapturedPoint(object, hasShape, s)
    <2>a. CASE registry' = [registry EXCEPT ![k] = C]
      <3> HIDE DEF s
      <3>a. C \in Seq(Entry) /\ DOMAIN C = DOMAIN s /\ \A i \in DOMAIN s : C[i].model = s[i].model
        BY <1>a, CapturedList
      <3> QED
        BY <2>a, <3>a
    <2>b. CASE registry' = [registry EXCEPT ![k] = P]
      <3>a. \A i \in DOMAIN s : s[i] \in Entry
        BY <1>a
      <3> DEFINE e(i) == [s[i] EXCEPT !.hasShape = hasShape]
      <3>d. ASSUME NEW i \in DOMAIN s PROVE e(i) \in Entry /\ e(i).model = s[i].model
        <4>a. s[i] \in Entry
          BY <3>a
        <4>b. e(i).model = s[i].model
          BY <4>a DEF Entry
        <4> QED
          BY <4>a, <4>b, EntryChanges
      <3>e. P = [i \in DOMAIN s |-> P[i]]
            /\ \A i \in DOMAIN s : P[i] = s[i] \/ P[i] = e(i)
        BY DEF CapturedPoint
      <3> HIDE DEF s, P, e
      <3>b. P = [i \in DOMAIN s |-> P[i]]
            /\ \A i \in DOMAIN s : P[i] \in Entry /\ P[i].model = s[i].model
        BY <3>a, <3>d, <3>e
      <3>c. P \in Seq(Entry) /\ DOMAIN P = DOMAIN s
        BY <1>a, <3>b, ChangedList
      <3> QED
        BY <2>b, <3>b, <3>c
    <2> QED
      BY <2>a, <2>b
  <1>c. SameModels(registry[k], U)
    BY <1>a, <1>b DEF SameModels
  <1>d. Registered' /\ registry'["tutorial"] = registry["tutorial"]
    BY <1>0, <1>b, ListChanges DEF TriggersInv, Kinds
  <1>e. ModelsAreOwned'
    BY <1>0, <1>b, <1>c, ModelsKept DEF TriggersInv
  <1>h. EmptyInTransition'
    <2>a. IsSceneTransitionActive => DOMAIN s = DOMAIN registry[k]
      BY DEF Entered
    <2> QED
      BY <1>0, <1>b, <2>a, EmptyKept DEF TriggersInv
  <1>f. SuppressedOnceBegun'
    BY <1>0, <1>d DEF TriggersInv, SuppressedOnceBegun, options
  <1>g. ExceptionIsFresh'
    BY DEF TriggersInv, ExceptionIsFresh
  <1> QED
    BY <1>d, <1>e, <1>f, <1>g, <1>h DEF TriggersInv

LEMMA ToggleRenderKeeps ==
  ASSUME TriggersInv, NEW k \in Kinds, ToggleRender(k)
  PROVE  TriggersInv'
  <1> DEFINE s == registry[k]
             U == Reset(s)
  <1>a. s \in Seq(Entry) /\ \A i \in DOMAIN s : s[i] \in Entry
    BY DEF TriggersInv, Registered
  <1>b. U = [i \in DOMAIN s |-> U[i]] /\ \A i \in DOMAIN s : Retained(s[i], U[i]) /\ U[i].model = NoHandle
    BY <1>a, DestroyedEntry DEF Reset
  <1>c. U \in Seq(Entry) /\ DOMAIN U = DOMAIN s /\ Len(U) = Len(s)
    BY <1>a, <1>b, ChangedList DEF Retained
  <1>d. registry' = [registry EXCEPT ![k] = U] /\ live' = live \ Owned(s)
    BY DEF ToggleRender
  <1>e. Owned(U) = {}
    BY <1>b, <1>c DEF Owned
  <1> HIDE DEF U
  <1>f. ModelsAreOwned'
    <2>a. IsSceneTransitionActive' => live' = {}
      BY <1>d DEF TriggersInv, ModelsAreOwned, IsSceneTransitionActive, ToggleRender
    <2>b. live' = (live \cup {}) \ ((Owned(s) \cup {}) \ Owned(U))
      BY <1>d, <1>e
    <2>c. \A i, h \in DOMAIN U : U[i].model = U[h].model /\ U[i].model # NoHandle => i = h
      BY <1>b, <1>c
    <2>d. Owned(U) \subseteq Owned(s) \cup {} /\ {} \cap live = {} /\ NoHandle \notin {}
      BY <1>e
    <2> QED
      BY <1>d, <2>a, <2>b, <2>c, <2>d, ModelsReplaced DEF TriggersInv
  <1>g. Registered' /\ registry'[k] = U /\ \A j \in Kinds \ {k} : registry'[j] = registry[j]
    BY <1>c, <1>d, ListChanges DEF TriggersInv, ToggleRender, game
  <1>j. EmptyInTransition'
    BY <1>c, <1>d, EmptyKept DEF TriggersInv, ToggleRender
  <1>h. SuppressedOnceBegun'
    <2>a. "tutorial" \in Kinds
      BY DEF Kinds
    <2>b. UNCHANGED <<repeatTutorialFlag, pauseTutorialRepeatUntilExit, begun, flag>>
      BY DEF ToggleRender, game
    <2> QED
      BY <1>b, <1>c, <1>g, <2>a, <2>b, SuppressionStays DEF TriggersInv, Retained
  <1>i. ExceptionIsFresh'
    BY DEF TriggersInv, ExceptionIsFresh, ToggleRender
  <1> QED
    BY <1>f, <1>g, <1>h, <1>i, <1>j DEF TriggersInv

LEMMA UpdateModelsKeeps ==
  ASSUME TriggersInv, NEW k \in Kinds, UpdateModels(k)
  PROVE  TriggersInv'
  <1>0. PICK positioned, loaded, expected, others :
          \E pair \in NewModels(k, Refreshed(k, positioned)) :
          LET updated == UpdatedModels(Refreshed(k, positioned), pair[1], pair[2], loaded)
          IN  /\ registry' = [registry EXCEPT ![k] =
                     [i \in DOMAIN updated |-> Checked(k, updated[i], expected, others)]]
              /\ live' = (live \cup ({pair[2]} \ {NoHandle}))
                         \ DestroyedModels(k, updated, others)
    BY Zenon DEF UpdateModels
  <1>a. PICK pair \in NewModels(k, Refreshed(k, positioned)) :
          LET updated == UpdatedModels(Refreshed(k, positioned), pair[1], pair[2], loaded)
          IN  /\ registry' = [registry EXCEPT ![k] =
                     [i \in DOMAIN updated |-> Checked(k, updated[i], expected, others)]]
              /\ live' = (live \cup ({pair[2]} \ {NoHandle}))
                         \ DestroyedModels(k, updated, others)
    BY <1>0
  <1> DEFINE s == registry[k]
             entries == Refreshed(k, positioned)
             new == pair[1]
             handle == pair[2]
             G == {handle} \ {NoHandle}
             M == UpdatedModels(entries, new, handle, loaded)
             U == [i \in DOMAIN M |-> Checked(k, M[i], expected, others)]
  <1>b. /\ entries \in Seq(Entry) /\ DOMAIN entries = DOMAIN s /\ Len(entries) = Len(s)
        /\ \A i \in DOMAIN s : /\ entries[i].model = s[i].model
                               /\ entries[i].object = s[i].object
                               /\ entries[i].repeatSuppressedUntilExit
                                    = s[i].repeatSuppressedUntilExit
                               /\ entries[i].flagId = s[i].flagId
    BY RefreshedList DEF TriggersInv
  <1>c. UNCHANGED <<flag, begun, repeatTutorialFlag, pauseTutorialRepeatUntilExit,
                    sceneTransition, control, bypass, lock>>
    BY DEF UpdateModels, options, game
  \* One new model at most, of a handle that is free, at an entry without a model.
  <1>d. /\ handle \in Handles \cup {NoHandle}
        /\ handle \notin live \/ handle = NoHandle
        /\ new \in DOMAIN s => s[new].model = NoHandle
        /\ handle # NoHandle => new \in DOMAIN s
    <2>a. DOMAIN s = 1 .. Len(s) /\ 0 \notin DOMAIN s
      BY DEF TriggersInv, Registered
    <2>b. CASE pair = <<0, NoHandle>>
      BY <2>a, <2>b
    <2>c. CASE pair \in Creatable(k, entries) \X (Handles \ live)
      BY <1>b, <2>c, TriggersAssumption DEF Creatable
    <2> QED
      BY <1>a, <2>b, <2>c DEF NewModels
  <1>e. G \cap live = {} /\ NoHandle \notin G
    BY <1>d
  <1> HIDE DEF entries, new, handle, s
  <1>f. /\ M \in Seq(Entry) /\ DOMAIN M = DOMAIN s /\ Len(M) = Len(s)
        /\ \A i \in DOMAIN s :
              /\ M[i].object = s[i].object
              /\ M[i].repeatSuppressedUntilExit = s[i].repeatSuppressedUntilExit
              /\ M[i].flagId = s[i].flagId
              /\ M[i].model = IF i = new THEN handle ELSE s[i].model
    <2>a. handle \in Handles \cup {NoHandle}
      BY <1>d
    <2> QED
      BY <1>b, <2>a, UpdatedList
  <1> HIDE DEF M
  <1>g. /\ U = [i \in DOMAIN M |-> U[i]]
        /\ \A i \in DOMAIN M : U[i] = Checked(k, M[i], expected, others)
    OBVIOUS
  <1>h. /\ registry' = [registry EXCEPT ![k] = U]
        /\ live' = (live \cup G) \ DestroyedModels(k, M, others)
    BY <1>a DEF M, entries, new, handle
  <1> HIDE DEF U
  <1>t. /\ U \in Seq(Entry) /\ DOMAIN U = DOMAIN s /\ Len(U) = Len(s)
        /\ \A i \in DOMAIN s :
              /\ U[i].object = s[i].object
              /\ U[i].repeatSuppressedUntilExit = s[i].repeatSuppressedUntilExit
              /\ U[i].flagId = s[i].flagId
              /\ U[i].model = IF Rejected(k, M[i], others) THEN NoHandle ELSE M[i].model
    <2>a. M \in Seq(Entry) /\ DOMAIN M = DOMAIN s /\ Len(M) = Len(s)
      BY <1>f
    <2>b. ASSUME NEW i \in DOMAIN M
          PROVE  /\ Retained(M[i], U[i])
                 /\ U[i].model = IF Rejected(k, M[i], others) THEN NoHandle ELSE M[i].model
      <3>a. M[i] \in Entry /\ U[i] = Checked(k, M[i], expected, others)
        BY <1>g, <2>a
      <3> QED
        BY <3>a, CheckedEntry
    <2>c. U \in Seq(Entry) /\ DOMAIN U = DOMAIN M /\ Len(U) = Len(M)
      BY <1>g, <2>a, <2>b, ChangedList DEF Retained
    <2> QED
      BY <1>f, <2>a, <2>b, <2>c DEF Retained
  <1>i. \A i, h \in DOMAIN s : M[i].model = M[h].model /\ M[i].model # NoHandle => i = h
    <2>a. \A j \in DOMAIN s : s[j].model # NoHandle => s[j].model \in live
      BY OwnedBy DEF TriggersInv, ModelsAreOwned, s
    <2>b. \A i, h \in DOMAIN s : s[i].model = s[h].model /\ s[i].model # NoHandle => i = h
      BY DEF TriggersInv, ModelsAreOwned, s
    <2> QED
      BY <1>d, <1>f, <2>a, <2>b
  <1>j. Owned(M) = Owned(s) \cup G
    <2>a. ASSUME NEW x \in Owned(M) PROVE x \in Owned(s) \cup G
      <3>a. PICK i \in DOMAIN s : M[i].model = x /\ x # NoHandle
        BY <1>f, OwnedBy
      <3> QED
        BY <1>f, <3>a, OwnedBy
    <2>b. ASSUME NEW x \in Owned(s) PROVE x \in Owned(M)
      <3>a. PICK i \in DOMAIN s : s[i].model = x /\ x # NoHandle
        BY OwnedBy
      <3>b. i # new
        BY <1>d, <3>a
      <3> QED
        BY <1>f, <3>a, <3>b, OwnedBy
    <2>c. ASSUME NEW x \in G PROVE x \in Owned(M)
      BY <1>d, <1>f, OwnedBy
    <2> QED
      BY <2>a, <2>b, <2>c
  <1>k. \A x : x \in Owned(U) <=> x \in Owned(M) /\ x \notin DestroyedModels(k, M, others)
    <2>a. ASSUME NEW x, x \in Owned(U)
          PROVE  x \in Owned(M) /\ x \notin DestroyedModels(k, M, others)
      <3>a. PICK i \in DOMAIN s : U[i].model = x /\ x # NoHandle
        BY <1>t, <2>a, OwnedBy
      <3>b. M[i].model = x /\ ~Rejected(k, M[i], others)
        BY <1>t, <3>a
      <3> QED
        BY <1>f, <1>i, <3>a, <3>b, OwnedBy DEF DestroyedModels
    <2>b. ASSUME NEW x, x \in Owned(M), x \notin DestroyedModels(k, M, others)
          PROVE  x \in Owned(U)
      <3>a. PICK i \in DOMAIN s : M[i].model = x /\ x # NoHandle
        BY <1>f, <2>b, OwnedBy
      <3>b. ~Rejected(k, M[i], others)
        BY <1>f, <2>b, <3>a DEF DestroyedModels
      <3>c. U[i].model = x
        BY <1>t, <3>a, <3>b
      <3> QED
        BY <1>t, <3>a, <3>c, OwnedBy
    <2> QED
      BY <2>a, <2>b
  \* A model that is destroyed was an entry's.
  <1>l. DestroyedModels(k, M, others) \subseteq Owned(M)
    BY OwnedBy DEF DestroyedModels, Rejected, Compared
  <1>m. live' = (live \cup G) \ ((Owned(s) \cup G) \ Owned(U))
    BY <1>h, <1>j, <1>k, <1>l
  <1>n. Owned(U) \subseteq Owned(s) \cup G
    BY <1>j, <1>k
  <1>o. \A i, h \in DOMAIN U : U[i].model = U[h].model /\ U[i].model # NoHandle => i = h
    BY <1>t, <1>i
  <1>p. IsSceneTransitionActive => DOMAIN s = {}
    BY DEF TriggersInv, EmptyInTransition, s
  <1>q. ModelsAreOwned'
    <2>a. IsSceneTransitionActive' => live' = {}
      <3> SUFFICES ASSUME IsSceneTransitionActive PROVE live' = {}
        BY <1>c DEF IsSceneTransitionActive
      <3>a. live = {} /\ G = {}
        BY <1>d, <1>p DEF TriggersInv, ModelsAreOwned
      <3> QED
        BY <1>h, <3>a
    <2> QED
      BY <1>e, <1>h, <1>m, <1>n, <1>o, <2>a, ModelsReplaced DEF TriggersInv, s
  <1>r. Registered' /\ registry'[k] = U /\ \A j \in Kinds \ {k} : registry'[j] = registry[j]
    BY <1>c, <1>t, <1>h, ListChanges DEF TriggersInv
  <1>s. EmptyInTransition'
    BY <1>c, <1>t, <1>h, EmptyKept DEF TriggersInv, s
  <1>v. SuppressedOnceBegun'
    <2>a. "tutorial" \in Kinds
      BY DEF Kinds
    <2> QED
      BY <1>c, <1>t, <1>r, <2>a, SuppressionStays DEF TriggersInv, s
  <1>w. ExceptionIsFresh'
    BY <1>c DEF TriggersInv, ExceptionIsFresh
  <1> QED
    BY <1>q, <1>r, <1>s, <1>v, <1>w DEF TriggersInv

\* A list but for the suppression of its entries.
Suppression(C, U) ==
    /\ U = [i \in DOMAIN C |-> U[i]]
    /\ \A i \in DOMAIN C :
          \/ U[i] = C[i]
          \/ \E b \in BOOLEAN : U[i] = [C[i] EXCEPT !.repeatSuppressedUntilExit = b]

\* What both hooks on a tutorial leave of its registry: each entry as captured, but
\* for its suppression, and a new entry only for a tutorial that had none.
LEMMA TutorialSteps ==
  ASSUME TriggersInv, NEW t \in Tutorials, NEW hasShape \in BOOLEAN, NEW U,
         Suppression(CapturedTutorial(t, hasShape, Entered("tutorial", t)), U),
         registry' = [registry EXCEPT !.tutorial = U],
         UNCHANGED <<live, flag, sceneTransition>>
  PROVE  /\ Registered' /\ ModelsAreOwned' /\ EmptyInTransition'
         /\ registry'["tutorial"] = U
         /\ DOMAIN U = DOMAIN Entered("tutorial", t)
         /\ Len(U) = Len(Entered("tutorial", t))
         /\ \A i \in DOMAIN U : U[i].object = Entered("tutorial", t)[i].object
  <1> DEFINE s == Entered("tutorial", t)
             C == CapturedTutorial(t, hasShape, s)
  <1>a. t \in Trigger /\ "tutorial" \in Kinds
    BY DEF Trigger, Kinds
  <1>b. s \in Seq(Entry) /\ SameModels(registry["tutorial"], s)
    <2>a. NewEntry(t).model = NoHandle
      BY DEF NewEntry
    <2> QED
      BY <1>a, <2>a, EnteredList DEF SameModels, TriggersInv
  <1>c. /\ C \in Seq(Entry) /\ DOMAIN C = DOMAIN s /\ Len(C) = Len(s)
        /\ \A i \in DOMAIN s : C[i].model = s[i].model /\ C[i].object = s[i].object
    BY <1>b, CapturedTutorialList DEF TriggersInv
  <1>kept. Suppression(C, U)
    OBVIOUS
  <1> HIDE DEF s, C
  <1>d. ASSUME NEW i \in DOMAIN C
        PROVE  U[i] \in Entry /\ U[i].model = C[i].model /\ U[i].object = C[i].object
    <2>a. C[i] \in Entry
      BY <1>c
    <2>b. CASE U[i] = C[i]
      BY <2>a, <2>b
    <2>c. CASE \E b \in BOOLEAN : U[i] = [C[i] EXCEPT !.repeatSuppressedUntilExit = b]
      <3>a. PICK b \in BOOLEAN : U[i] = [C[i] EXCEPT !.repeatSuppressedUntilExit = b]
        BY <2>c
      <3>b. U[i].model = C[i].model /\ U[i].object = C[i].object
        BY <2>a, <3>a DEF Entry
      <3>c. [C[i] EXCEPT !.repeatSuppressedUntilExit = b] \in Entry
        BY <2>a, EntryChanges
      <3> QED
        BY <3>a, <3>b, <3>c
    <2> QED
      BY <1>kept, <1>d, <2>b, <2>c DEF Suppression
  <1>e. U \in Seq(Entry) /\ DOMAIN U = DOMAIN C /\ Len(U) = Len(C)
    BY <1>kept, <1>c, <1>d, ChangedList DEF Suppression
  <1>f. SameModels(registry["tutorial"], U)
    <2>a. DOMAIN U = DOMAIN s /\ \A i \in DOMAIN s : U[i].model = s[i].model
      BY <1>c, <1>d, <1>e
    <2> QED
      BY <1>b, <2>a DEF SameModels
  <1>g. registry' = [registry EXCEPT !["tutorial"] = U]
    OBVIOUS
  <1>h. ModelsAreOwned'
    BY <1>a, <1>f, <1>g, ModelsKept DEF TriggersInv
  <1>i. Registered' /\ registry'["tutorial"] = U
    BY <1>a, <1>e, <1>g, ListChanges DEF TriggersInv
  <1>j.  \A i \in DOMAIN U : U[i].object = s[i].object
    BY <1>c, <1>d, <1>e
  <1>k. EmptyInTransition'
    <2>a. IsSceneTransitionActive => s = registry["tutorial"]
      BY DEF s, Entered
    <2> QED
      BY <1>a, <1>c, <1>e, <1>g, <2>a, EmptyKept DEF TriggersInv
  <1> QED
    BY <1>c, <1>e, <1>h, <1>i, <1>j, <1>k DEF s

LEMMA TutorialBeginKeeps ==
  ASSUME TriggersInv, NEW t \in Tutorials, TutorialBegin(t)
  PROVE  TriggersInv'
  <1>0. PICK hasShape \in BOOLEAN :
          LET captured == CapturedTutorial(t, hasShape, Entered("tutorial", t))
              repeats == repeatTutorialFlag /\ pauseTutorialRepeatUntilExit
          IN  registry' = [registry EXCEPT !.tutorial =
                 [i \in DOMAIN captured |->
                    IF captured[i].object = t /\ repeats
                    THEN [captured[i] EXCEPT !.repeatSuppressedUntilExit = TRUE]
                    ELSE captured[i]]]
    BY DEF TutorialBegin, Volume
  <1> DEFINE s == registry["tutorial"]
             e == Entered("tutorial", t)
             repeats == repeatTutorialFlag /\ pauseTutorialRepeatUntilExit
             C == CapturedTutorial(t, hasShape, e)
             U == [i \in DOMAIN C |->
                      IF C[i].object = t /\ repeats
                      THEN [C[i] EXCEPT !.repeatSuppressedUntilExit = TRUE]
                      ELSE C[i]]
  <1>a. registry' = [registry EXCEPT !.tutorial = U]
    BY <1>0
  <1>b. /\ Registered' /\ ModelsAreOwned' /\ EmptyInTransition'
        /\ registry'["tutorial"] = U
        /\ DOMAIN U = DOMAIN e /\ Len(U) = Len(e)
        /\ \A i \in DOMAIN U : U[i].object = e[i].object
    <2>a. Suppression(C, U)
      <3> HIDE DEF C
      <3> QED
        BY DEF Suppression
    <2>b. UNCHANGED <<live, flag, sceneTransition>> /\ hasShape \in BOOLEAN
      BY <1>0 DEF TutorialBegin
    <2> HIDE DEF U
    <2> QED
      BY <1>a, <2>a, <2>b, TutorialSteps
  <1>c. /\ e \in Seq(Entry) /\ DOMAIN s \subseteq DOMAIN e /\ Len(e) >= Len(s)
        /\ \A i \in DOMAIN s : e[i] = s[i]
        /\ \A i \in DOMAIN e \ DOMAIN s : e[i] = NewEntry(t)
        /\ Len(s) < MaxEntries["tutorial"] => \E i \in DOMAIN e : e[i].object = t
        /\ Len(s) \in Nat /\ Len(e) \in Nat /\ MaxEntries["tutorial"] \in Nat
    BY EnteredList, TriggersAssumption DEF TutorialBegin, TriggersInv, Registered, Trigger, Kinds
  <1>d. \A i \in DOMAIN e : /\ C[i].object = e[i].object /\ C[i] \in Entry
                            /\ e[i].object # t => C[i] = e[i]
                            /\ e[i].object = t => C[i].flagId = flag[t]
    BY <1>c, CapturedTutorialList DEF TriggersInv, TutorialBegin
  <1>e. ASSUME repeats, NEW i \in DOMAIN e
        PROVE  /\ e[i].object = t => U[i].repeatSuppressedUntilExit /\ U[i].flagId = flag[t]
               /\ e[i].object # t => U[i] = e[i]
    <2>a. C[i] \in Entry /\ i \in DOMAIN C
      BY <1>b, <1>d
    <2>b. CASE e[i].object = t
      BY <1>d, <1>e, <2>a, <2>b DEF Entry
    <2>c. CASE e[i].object # t
      BY <1>d, <2>a, <2>c
    <2> QED
      BY <2>b, <2>c
  <1>f. UNCHANGED <<repeatTutorialFlag, pauseTutorialRepeatUntilExit, flag>> /\ begun' = begun \cup {t}
    BY DEF TutorialBegin, options
  <1> HIDE DEF U, C, e
  <1>g. SuppressedOnceBegun'
    <2> SUFFICES ASSUME repeats, NEW u \in begun \cup {t}
                 PROVE  /\ \A i \in DOMAIN e : e[i].object = u
                              => U[i].repeatSuppressedUntilExit /\ U[i].flagId = flag[u]
                        /\ (\A i \in DOMAIN e : e[i].object # u)
                              => Len(e) >= MaxEntries["tutorial"]
      BY <1>b, <1>f DEF SuppressedOnceBegun, TriggersInv
    <2>a. CASE u = t
      <3>a. \A i \in DOMAIN e : e[i].object = u
               => U[i].repeatSuppressedUntilExit /\ U[i].flagId = flag[u]
        BY <1>e, <2>a
      <3>b. (\A i \in DOMAIN e : e[i].object # u) => Len(e) >= MaxEntries["tutorial"]
        BY <1>c, <2>a
      <3> QED
        BY <3>a, <3>b
    <2>b. CASE u # t
      <3>a. u \in begun
        BY <2>b
      <3>b. /\ \A i \in DOMAIN s : s[i].object = u
                  => s[i].repeatSuppressedUntilExit /\ s[i].flagId = flag[u]
            /\ (\A i \in DOMAIN s : s[i].object # u) => Len(s) >= MaxEntries["tutorial"]
        BY <3>a DEF TriggersInv, SuppressedOnceBegun
      <3>c. \A i \in DOMAIN e \ DOMAIN s : e[i].object = t
        BY <1>c DEF NewEntry
      <3>d. ASSUME NEW i \in DOMAIN e, e[i].object = u
            PROVE  U[i].repeatSuppressedUntilExit /\ U[i].flagId = flag[u]
        <4>a. i \in DOMAIN s
          BY <2>b, <3>c, <3>d
        <4>b. e[i].repeatSuppressedUntilExit /\ e[i].flagId = flag[u]
          BY <1>c, <3>b, <3>d, <4>a
        <4> QED
          BY <1>e, <2>b, <3>d, <4>b
      <3>e. (\A i \in DOMAIN e : e[i].object # u) => Len(e) >= MaxEntries["tutorial"]
        <4> HAVE \A i \in DOMAIN e : e[i].object # u
        <4>a. \A i \in DOMAIN s : s[i].object # u
          BY <1>c
        <4>b. Len(s) >= MaxEntries["tutorial"]
          BY <3>b, <4>a
        <4> QED
          BY <1>c, <4>b
      <3> QED
        BY <3>d, <3>e
    <2> QED
      BY <2>a, <2>b
  <1>h. ExceptionIsFresh'
    <2>a. control' = [trigger |-> t, observed |-> FALSE, arm |-> ArmFrames] /\ lock' = "Awaited"
      BY DEF TutorialBegin
    <2> QED
      BY <2>a, TriggersAssumption DEF ExceptionIsFresh
  <1> QED
    BY <1>b, <1>g, <1>h DEF TriggersInv

LEMMA TutorialUpdateKeeps ==
  ASSUME TriggersInv, NEW t \in Tutorials, TutorialUpdate(t)
  PROVE  TriggersInv'
  <1>0. PICK hasShape \in BOOLEAN :
          LET captured == CapturedTutorial(t, hasShape, Entered("tutorial", t))
          IN  registry' = [registry EXCEPT !.tutorial =
                 IF IsSceneTransitionActive THEN captured
                 ELSE [i \in DOMAIN captured |-> Rearmed(captured[i], t)]]
    BY DEF TutorialUpdate, Volume
  <1> DEFINE s == registry["tutorial"]
             e == Entered("tutorial", t)
             C == CapturedTutorial(t, hasShape, e)
             U == IF IsSceneTransitionActive THEN C
                  ELSE [i \in DOMAIN C |-> Rearmed(C[i], t)]
  <1>a. registry' = [registry EXCEPT !.tutorial = U] /\ hasShape \in BOOLEAN
    BY <1>0
  <1>b. /\ e \in Seq(Entry) /\ DOMAIN s \subseteq DOMAIN e /\ Len(e) >= Len(s)
        /\ \A i \in DOMAIN s : e[i] = s[i]
        /\ \A i \in DOMAIN e \ DOMAIN s :
              e[i] = NewEntry(t) /\ Len(s) < MaxEntries["tutorial"] /\ Find("tutorial", t) = {}
        /\ Len(s) \in Nat /\ Len(e) \in Nat /\ MaxEntries["tutorial"] \in Nat
    BY EnteredList, TriggersAssumption DEF TriggersInv, Registered, Trigger, Kinds
  <1>c. /\ C \in Seq(Entry) /\ DOMAIN C = DOMAIN e
        /\ \A i \in DOMAIN e :
              /\ C[i].object = e[i].object
              /\ e[i].object # t => C[i] = e[i]
              /\ e[i].flagId = flag[t] =>
                    /\ C[i].flagId = flag[t]
                    /\ C[i].repeatSuppressedUntilExit = e[i].repeatSuppressedUntilExit
              /\ ~IsSceneTransitionActive /\ e[i].object = t => C[i].inside = (t \in within)
    BY <1>a, <1>b, CapturedTutorialList DEF TriggersInv
  <1>d. Suppression(C, U)
    <2>a. CASE IsSceneTransitionActive
      <3>a. U = C /\ C = [i \in DOMAIN C |-> C[i]]
        BY <1>c, <2>a
      <3> QED
        BY <3>a DEF Suppression
    <2>b. CASE ~IsSceneTransitionActive
      <3>a. U = [i \in DOMAIN C |-> Rearmed(C[i], t)]
        BY <2>b
      <3>b. \A i \in DOMAIN C :
               \/ Rearmed(C[i], t) = C[i]
               \/ Rearmed(C[i], t) = [C[i] EXCEPT !.repeatSuppressedUntilExit = FALSE]
        BY DEF Rearmed
      <3> HIDE DEF C, U
      <3> QED
        BY <3>a, <3>b DEF Suppression
    <2> QED
      BY <2>a, <2>b
  <1>e. \A i \in DOMAIN e : e[i].object # t \/ t \in within => U[i] = C[i]
    BY <1>c DEF Rearmed
  <1> HIDE DEF U, C
  <1>f. /\ Registered' /\ ModelsAreOwned' /\ EmptyInTransition'
        /\ registry'["tutorial"] = U
        /\ DOMAIN U = DOMAIN e /\ Len(U) = Len(e)
        /\ \A i \in DOMAIN U : U[i].object = e[i].object
    <2>a. UNCHANGED <<live, flag, sceneTransition>>
      BY DEF TutorialUpdate, game
    <2> QED
      BY <1>a, <1>d, <2>a, TutorialSteps DEF C
  <1> HIDE DEF e
  <1>g. SuppressedOnceBegun'
    <2>a. UNCHANGED <<repeatTutorialFlag, pauseTutorialRepeatUntilExit, flag>>
          /\ begun' = IF t \in within THEN begun ELSE begun \ {t}
      BY DEF TutorialUpdate, options, game
    <2> SUFFICES ASSUME repeatTutorialFlag /\ pauseTutorialRepeatUntilExit,
                        NEW u \in begun, u # t \/ t \in within
                 PROVE  /\ \A i \in DOMAIN e : e[i].object = u
                              => U[i].repeatSuppressedUntilExit /\ U[i].flagId = flag[u]
                        /\ (\A i \in DOMAIN e : e[i].object # u)
                              => Len(e) >= MaxEntries["tutorial"]
      BY <1>f, <2>a DEF SuppressedOnceBegun, TriggersInv
    <2>b. /\ \A i \in DOMAIN s : s[i].object = u
                => s[i].repeatSuppressedUntilExit /\ s[i].flagId = flag[u]
          /\ (\A i \in DOMAIN s : s[i].object # u) => Len(s) >= MaxEntries["tutorial"]
      BY DEF TriggersInv, SuppressedOnceBegun
    <2>c. ASSUME NEW i \in DOMAIN e, e[i].object = u
          PROVE  U[i].repeatSuppressedUntilExit /\ U[i].flagId = flag[u]
      <3>a. i \in DOMAIN s
        <4> SUFFICES ASSUME i \notin DOMAIN s PROVE FALSE
          OBVIOUS
        <4>a. u = t /\ Len(s) < MaxEntries["tutorial"] /\ Find("tutorial", t) = {}
          BY <1>b, <2>c DEF NewEntry
        <4> QED
          BY <1>b, <2>b, <4>a DEF Find
      <3>b. e[i].repeatSuppressedUntilExit /\ e[i].flagId = flag[u]
        BY <1>b, <2>b, <2>c, <3>a
      <3>c. C[i].repeatSuppressedUntilExit /\ C[i].flagId = flag[u]
        BY <1>c, <2>c, <3>b
      <3>d. U[i] = C[i]
        BY <1>e, <2>c
      <3> QED
        BY <3>c, <3>d
    <2>d. (\A i \in DOMAIN e : e[i].object # u) => Len(e) >= MaxEntries["tutorial"]
      <3> HAVE \A i \in DOMAIN e : e[i].object # u
      <3>a. \A i \in DOMAIN s : s[i].object # u
        BY <1>b
      <3>b. Len(s) >= MaxEntries["tutorial"]
        BY <2>b, <3>a
      <3> QED
        BY <1>b, <3>b
    <2> QED
      BY <2>c, <2>d
  <1>h. ExceptionIsFresh'
    BY DEF TriggersInv, ExceptionIsFresh, TutorialUpdate
  <1> QED
    BY <1>f, <1>g, <1>h DEF TriggersInv

LEMMA ResetTutorialRepeatCycleKeeps ==
  ASSUME TriggersInv, ResetTutorialRepeatCycle
  PROVE  TriggersInv'
  <1> DEFINE s == registry["tutorial"]
             U == [i \in DOMAIN s |-> [s[i] EXCEPT !.repeatSuppressedUntilExit = FALSE]]
  <1>a. registry' = [registry EXCEPT !["tutorial"] = U] /\ begun' = {}
        /\ UNCHANGED <<control, live, flag, bypass, lock, sceneTransition>>
    BY DEF ResetTutorialRepeatCycle, game
  <1>b. s \in Seq(Entry) /\ "tutorial" \in Kinds /\ \A i \in DOMAIN s : s[i] \in Entry
    BY DEF TriggersInv, Registered, Kinds
  <1>c. \A i \in DOMAIN s : U[i] \in Entry /\ U[i].model = s[i].model
    BY <1>b DEF Entry
  <1>d. U = [i \in DOMAIN s |-> U[i]]
    OBVIOUS
  <1> HIDE DEF U
  <1>e. U \in Seq(Entry) /\ DOMAIN U = DOMAIN s
    BY <1>b, <1>c, <1>d, ChangedList
  <1>f. SameModels(s, U)
    BY <1>c, <1>e DEF SameModels
  <1>g. ModelsAreOwned'
    BY <1>a, <1>b, <1>f, ModelsKept DEF TriggersInv
  <1>k. EmptyInTransition'
    BY <1>a, <1>b, <1>e, EmptyKept DEF TriggersInv
  <1>h. Registered'
    BY <1>a, <1>b, <1>e, ListChanges DEF TriggersInv
  <1>i. SuppressedOnceBegun'
    BY <1>a DEF SuppressedOnceBegun
  <1>j.  ExceptionIsFresh'
    BY <1>a DEF TriggersInv, ExceptionIsFresh
  <1> QED
    BY <1>g, <1>h, <1>i, <1>j, <1>k DEF TriggersInv

LEMMA BypassKeeps ==
  ASSUME TriggersInv, NEW controlFree \in BOOLEAN, ShouldBypassControlLockForTutorial(controlFree)
  PROVE  TriggersInv'
  <1>a. UNCHANGED <<models, options, flag, begun, sceneTransition>>
    BY DEF ShouldBypassControlLockForTutorial, game
  <1>b. Registered' /\ ModelsAreOwned' /\ EmptyInTransition' /\ SuppressedOnceBegun'
    <2>a. /\ flag' = flag /\ registry' = registry /\ live' = live /\ begun' = begun
          /\ repeatTutorialFlag' = repeatTutorialFlag /\ sceneTransition' = sceneTransition
          /\ pauseTutorialRepeatUntilExit' = pauseTutorialRepeatUntilExit
      BY <1>a DEF models, options
    <2>b. Registered'
      BY <2>a DEF TriggersInv, Registered
    <2>c. ModelsAreOwned'
      BY <2>a, Zenon DEF TriggersInv, ModelsAreOwned, IsSceneTransitionActive
    <2>d. SuppressedOnceBegun' /\ EmptyInTransition'
      BY <2>a DEF TriggersInv, SuppressedOnceBegun, EmptyInTransition, IsSceneTransitionActive
    <2> QED
      BY <2>b, <2>c, <2>d
  <1>c. ExceptionIsFresh'
    <2>a. /\ bypass' = (StillBegun /\ ~controlFree)
          /\ control' = IF ~StillBegun THEN NoControl
                        ELSE IF controlFree THEN AfterFreeFrame
                        ELSE [control EXCEPT !.observed = TRUE]
          /\ lock' = IF controlFree THEN (IF lock = "Held" THEN "Released" ELSE lock)
                     ELSE (IF lock = "Awaited" THEN "Held" ELSE lock)
      BY DEF ShouldBypassControlLockForTutorial
    <2>b. StillBegun => control.trigger # NoTrigger
      BY DEF StillBegun
    <2>c. ExceptionIsFresh
      BY DEF TriggersInv
    <2>d. ArmFrames \in Nat
      BY TriggersAssumption
    <2>e. CASE ~StillBegun
      <3>a. control' = NoControl /\ ~bypass' /\ lock' \in {"Awaited", "Held", "Released"}
        BY <2>a, <2>c, <2>e DEF ExceptionIsFresh
      <3>b. NoControl \in [trigger : Tutorials \cup {NoTrigger}, observed : BOOLEAN, arm : 0 .. ArmFrames]
        BY <2>d DEF NoControl
      <3> QED
        BY <3>a, <3>b DEF ExceptionIsFresh, NoControl
    <2>f. CASE StillBegun /\ controlFree
      <3>a. ~bypass' /\ control' = AfterFreeFrame
            /\ lock' = IF lock = "Held" THEN "Released" ELSE lock
        BY <2>a, <2>f, Zenon
      <3>b. CASE control.observed \/ control.arm <= 1
        BY <2>c, <2>d, <3>a, <3>b DEF ExceptionIsFresh, AfterFreeFrame, NoControl
      <3>c. CASE ~control.observed /\ ~(control.arm <= 1)
        <4>a. control' = [control EXCEPT !.arm = @ - 1]
          BY <3>a, <3>c DEF AfterFreeFrame
        <4>b. control.arm - 1 \in 0 .. ArmFrames
          BY <2>c, <2>d, <3>c DEF ExceptionIsFresh
        <4>c. /\ control' \in [trigger : Tutorials \cup {NoTrigger}, observed : BOOLEAN,
                                arm : 0 .. ArmFrames]
              /\ control'.trigger = control.trigger /\ control'.observed = control.observed
          BY <2>c, <4>a, <4>b DEF ExceptionIsFresh
        <4>d. lock # "Held" /\ lock # "Released"
          BY <2>b, <2>c, <2>f, <3>c DEF ExceptionIsFresh
        <4> QED
          BY <2>c, <3>a, <4>c, <4>d DEF ExceptionIsFresh
      <3> QED
        BY <3>b, <3>c
    <2>g. CASE StillBegun /\ ~controlFree
      <3>a. /\ control' = [control EXCEPT !.observed = TRUE]
            /\ lock' = IF lock = "Awaited" THEN "Held" ELSE lock
        BY <2>a, <2>g
      <3>b. lock # "Released" /\ lock \in {"Awaited", "Held", "Released"}
        BY <2>b, <2>c, <2>g DEF ExceptionIsFresh
      <3>c. /\ control' \in [trigger : Tutorials \cup {NoTrigger}, observed : BOOLEAN,
                              arm : 0 .. ArmFrames]
            /\ control'.observed
        BY <2>c, <3>a DEF ExceptionIsFresh
      <3> QED
        BY <3>a, <3>b, <3>c DEF ExceptionIsFresh
    <2> QED
      BY <2>e, <2>f, <2>g
  <1> QED
    BY <1>b, <1>c DEF TriggersInv

LEMMA SceneChangeKeeps ==
  ASSUME TriggersInv, SceneChange
  PROVE  TriggersInv'
  <1>a. CASE IsSceneTransitionActive
    <2>a. UNCHANGED <<registry, live, options, flag, control, bypass, lock, begun>>
      BY <1>a DEF SceneChange, models, game
    <2>b. Registered' /\ SuppressedOnceBegun' /\ ExceptionIsFresh'
      BY <2>a DEF TriggersInv, Registered, SuppressedOnceBegun, ExceptionIsFresh, options
    <2>c. ModelsAreOwned' /\ EmptyInTransition'
      BY <1>a, <2>a DEF TriggersInv, ModelsAreOwned, EmptyInTransition
    <2> QED
      BY <2>b, <2>c DEF TriggersInv
  <1>b. CASE ~IsSceneTransitionActive
    <2>a. ClearRegistries
      BY <1>b DEF SceneChange
    <2>b. Registered' /\ \A k \in Kinds : registry'[k] = <<>> /\ Owned(registry'[k]) = {}
      BY <2>a DEF ClearRegistries, Registered, Owned, TriggersInv, SceneChange, game
    <2>c. live' = {}
      BY <2>a DEF ClearRegistries, TriggersInv, ModelsAreOwned
    <2>d. ModelsAreOwned' /\ EmptyInTransition'
      BY <2>b, <2>c DEF ModelsAreOwned, EmptyInTransition
    <2>e. SuppressedOnceBegun'
      BY <2>a DEF ClearRegistries, SuppressedOnceBegun
    <2>f. ExceptionIsFresh'
      BY <2>a, TriggersAssumption DEF ClearRegistries, ExceptionIsFresh, NoControl
    <2> QED
      BY <2>b, <2>d, <2>e, <2>f DEF TriggersInv
  <1> QED
    BY <1>a, <1>b

LEMMA SceneReadyKeeps ==
  ASSUME TriggersInv, SceneReady
  PROVE  TriggersInv'
  <1>a. UNCHANGED <<registry, live, options, flag, control, bypass, lock, begun>>
    BY DEF SceneReady, models, game
  <1>b. Registered' /\ SuppressedOnceBegun' /\ ExceptionIsFresh'
    BY <1>a DEF TriggersInv, Registered, SuppressedOnceBegun, ExceptionIsFresh, options
  <1>c. ModelsAreOwned' /\ EmptyInTransition'
    BY <1>a DEF TriggersInv, ModelsAreOwned, EmptyInTransition, SceneReady,
                EndSceneTransition, IsSceneTransitionActive
  <1> QED
    BY <1>b, <1>c DEF TriggersInv

LEMMA UnregardedKeeps ==
  ASSUME TriggersInv,
         UNCHANGED <<models, repeatTutorialFlag, pauseTutorialRepeatUntilExit, control, bypass,
                     lock, flag, begun, sceneTransition>>
  PROVE  TriggersInv'
  <1>a. UNCHANGED <<registry, live, sceneTransition>>
    BY DEF models
  <1>b. Registered' /\ SuppressedOnceBegun' /\ ExceptionIsFresh'
    BY <1>a DEF TriggersInv, Registered, SuppressedOnceBegun, ExceptionIsFresh
  <1>c. ModelsAreOwned' /\ EmptyInTransition'
    BY <1>a DEF TriggersInv, ModelsAreOwned, EmptyInTransition, IsSceneTransitionActive
  <1> QED
    BY <1>b, <1>c DEF TriggersInv

\* What an object's other flag ends is that its tutorial has begun.
LEMMA GiveFlagKeeps ==
  ASSUME TriggersInv, NEW t \in Tutorials, GiveFlag(t)
  PROVE  TriggersInv'
  <1>a. /\ UNCHANGED <<registry, live, control, bypass, lock, sceneTransition,
                        repeatTutorialFlag, pauseTutorialRepeatUntilExit>>
        /\ begun' = begun \ {t}
    BY DEF GiveFlag, models, options
  <1>b. PICK id \in FlagIds[t] : flag' = [flag EXCEPT ![t] = id]
    BY DEF GiveFlag
  <1>c. flag' \in Flags /\ \A u \in Tutorials \ {t} : flag'[u] = flag[u]
    <2>a. flag \in Flags /\ id \in FlagId
      BY DEF TriggersInv, Registered, FlagId
    <2> QED
      BY <1>b, <2>a DEF Flags
  <1>d. Registered' /\ ExceptionIsFresh'
    BY <1>a, <1>c DEF TriggersInv, Registered, ExceptionIsFresh
  <1>e. ModelsAreOwned' /\ EmptyInTransition'
    BY <1>a DEF TriggersInv, ModelsAreOwned, EmptyInTransition, IsSceneTransitionActive
  <1>f. SuppressedOnceBegun'
    <2>a. begun \subseteq Tutorials
      BY DEF TriggersInv, SuppressedOnceBegun
    <2> QED
      BY <1>a, <1>c, <2>a DEF TriggersInv, SuppressedOnceBegun
  <1> QED
    BY <1>d, <1>e, <1>f DEF TriggersInv

LEMMA TriggersStep == TriggersInv /\ [TriggersNext]_triggerVars => TriggersInv'
  <1> SUFFICES ASSUME TriggersInv, [TriggersNext]_triggerVars PROVE TriggersInv'
    OBVIOUS
  <1>a. ASSUME NEW k \in Kinds, ToggleRender(k) \/ UpdateModels(k) PROVE TriggersInv'
    BY <1>a, ToggleRenderKeeps, UpdateModelsKeeps
  <1>b. ASSUME NEW k \in Kinds, NEW object \in Trigger, TriggerUpdate(k, object)
        PROVE  TriggersInv'
    <2>a. PICK hasShape \in BOOLEAN :
             registry' = [registry EXCEPT ![k] = Captured(object, hasShape, Entered(k, object))]
      BY <1>b DEF TriggerUpdate, Volume
    <2>b. k # "tutorial"
          /\ UNCHANGED <<options, control, live, game, bypass, lock, begun, sceneTransition>>
      BY <1>b DEF TriggerUpdate, Named
    <2> QED
      BY <2>a, <2>b, CaptureSteps
  <1>c. ASSUME NEW object \in Points, CollectionUpdate(object) PROVE TriggersInv'
    <2>a. PICK positioned \in BOOLEAN :
             registry' = [registry EXCEPT !["collection"] =
                CapturedPoint(object, positioned, Entered("collection", object))]
      BY <1>c DEF CollectionUpdate
    <2>b. "collection" \in Kinds /\ "collection" # "tutorial" /\ object \in Trigger
          /\ UNCHANGED <<options, control, live, game, bypass, lock, begun, sceneTransition>>
      BY <1>c DEF CollectionUpdate, Kinds, Trigger
    <2> QED
      BY <2>a, <2>b, CaptureSteps
  <1>d. ASSUME NEW t \in Tutorials, TutorialBegin(t) \/ TutorialUpdate(t) PROVE TriggersInv'
    BY <1>d, TutorialBeginKeeps, TutorialUpdateKeeps
  <1>e. CASE ToggleRepeat \/ TogglePause
    BY <1>e, ResetTutorialRepeatCycleKeeps DEF ToggleRepeat, TogglePause
  <1>f. ASSUME NEW controlFree \in BOOLEAN, ShouldBypassControlLockForTutorial(controlFree)
        PROVE  TriggersInv'
    BY <1>f, BypassKeeps
  <1>g. ASSUME NEW t \in Tutorials, Walk(t) PROVE TriggersInv'
    BY <1>g, UnregardedKeeps DEF Walk, options
  <1>j. ASSUME NEW t \in Tutorials, GiveFlag(t) PROVE TriggersInv'
    BY <1>j, GiveFlagKeeps
  <1>h. CASE SceneChange \/ SceneReady
    BY <1>h, SceneChangeKeeps, SceneReadyKeeps
  <1>i. CASE UNCHANGED triggerVars
    BY <1>i, UnregardedKeeps DEF triggerVars, options, game
  <1> QED
    BY <1>a, <1>b, <1>c, <1>d, <1>e, <1>f, <1>g, <1>h, <1>i, <1>j
    DEF TriggersNext, VisualizerNext, TutorialsNext

\* TriggerVisualizer: in every state each model belongs to one entry, the exception of
\* the reset cycle is fresh, and what the tools suppress has begun.
THEOREM TriggersInvariance == TriggersSpec => []TriggersInv
  BY TriggersInitInv, TriggersStep, PTL DEF TriggersSpec

\* TriggerVisualizer: no model is left without an entry to destroy it by, and none
\* outlives its scene.
THEOREM ModelsAreOwnedHolds == TriggersSpec => []ModelsAreOwned
  <1>a. TriggersInv => ModelsAreOwned
    BY DEF TriggersInv
  <1> QED
    BY <1>a, TriggersInvariance, PTL

\* TriggerVisualizer, Targeting: what lets a tutorial be walked past lets past no other,
\* and a repeated one waits for the player to leave before it begins again.
THEOREM TutorialServesOneVisitHolds == TriggersSpec => []TutorialServesOneVisit
  <1>a. TriggersInv => BypassCoversOneLock
    BY DEF TriggersInv, ExceptionIsFresh, BypassCoversOneLock
  <1>b. TriggersInv => RepeatsOncePerVisit
    <2> SUFFICES ASSUME TriggersInv, NEW t \in begun, <<t, flag[t]>> \in done,
                        pauseTutorialRepeatUntilExit, ReadsUnseen(t, FALSE)
                 PROVE  FALSE
      BY DEF RepeatsOncePerVisit
    <2>a. PICK i \in Find("tutorial", t) : ~registry.tutorial[i].repeatSuppressedUntilExit
      BY DEF ReadsUnseen
    <2>b. repeatTutorialFlag
      BY DEF ReadsUnseen
    <2> QED
      BY <2>a, <2>b DEF TriggersInv, SuppressedOnceBegun, Find
  <1>c. TriggersInv => TutorialServesOneVisit
    BY <1>a, <1>b DEF TutorialServesOneVisit
  <1> QED
    BY <1>c, TriggersInvariance, PTL

----
(* Skip travel.  The forced handover of a skip-travel screen belongs to the     *)
(* opening that armed it.  Of the operators on the profiler's state most leave   *)
(* the handover alone (Keeps); the others arm it, confirm it or cancel it.       *)


Fields == {"run", "history", "write", "count", "next", "forced", "suppressed", "tracked"}
Handovers == [armed : BOOLEAN, confirmed : BOOLEAN, age : Int,
              object : ControlsObject \cup {0}]
Screens == [open : BOOLEAN, input : BOOLEAN, native : BOOLEAN, usable : BOOLEAN,
            object : ControlsObject \cup {0}, asked : BOOLEAN, shown : Int]

IsWorld(w) == w = [field \in Fields |-> w[field]] /\ w.forced \in Handovers

\* w is followed by v, the handover as it was.
Keeps(w, v) == IsWorld(v) /\ v.forced = w.forced

\* What is confirmed belongs to a screen that is open and without input, and the
\* player leaves a screen only with its input enabled.
ProfilerInv ==
    /\ forced \in Handovers
    /\ screen \in Screens
    /\ screen.usable => screen.input
    /\ ForcedInputServesOpening

LEMMA WorldIsWorld == ASSUME forced \in Handovers PROVE IsWorld(World) /\ World.forced = forced
  BY DEF IsWorld, World, Fields

LEMMA NotForcedIsTyped == NotForced \in Handovers /\ NotForced.armed = FALSE /\ NotForced.confirmed = FALSE
  BY DEF NotForced, Handovers

LEMMA RecordKeeps ==
  ASSUME NEW w, IsWorld(w), NEW event PROVE Keeps(w, RecordEvent(w, event))
  BY DEF Keeps, IsWorld, RecordEvent, Fields

LEMMA StagesKeep == ASSUME NEW w, IsWorld(w) PROVE Keeps(w, RecordStages(w))
  BY RecordKeeps DEF Keeps, RecordStages

LEMMA FinishKeeps ==
  ASSUME NEW w, IsWorld(w), NEW completed \in BOOLEAN PROVE Keeps(w, FinishRun(w, completed))
<1>a. ASSUME NEW v, IsWorld(v) PROVE Keeps(v, SaveCurrentRun(v))
  BY <1>a DEF Keeps, IsWorld, SaveCurrentRun, Fields
<1> DEFINE ended == [w EXCEPT !.run.running = FALSE, !.run.completed = completed]
<1>b. Keeps(w, ended)
  BY DEF Keeps, IsWorld, Fields
<1> HIDE DEF ended
<1>c. Keeps(w, SaveCurrentRun(ended))
  BY <1>a, <1>b DEF Keeps
<1> QED BY <1>c DEF FinishRun, Keeps, ended

LEMMA ReadyKeeps == ASSUME NEW w, IsWorld(w) PROVE Keeps(w, FinishRunWhenReady(w))
<1> DEFINE yes == TRUE
<1>a. Keeps(w, FinishRun(w, yes))
  BY FinishKeeps
<1> QED BY <1>a DEF FinishRunWhenReady, Keeps

LEMMA InterruptKeeps == ASSUME NEW w, IsWorld(w) PROVE Keeps(w, Interrupt(w))
<1> DEFINE no == FALSE
<1>a. Keeps(w, RecordEvent(w, "Interrupted"))
  BY RecordKeeps
<1>b. Keeps(w, FinishRun(RecordEvent(w, "Interrupted"), no))
  BY <1>a, FinishKeeps DEF Keeps
<1> QED BY <1>b DEF Interrupt, Keeps

LEMMA ResetKeeps == ASSUME NEW w, IsWorld(w) PROVE Keeps(w, ResetNativeTracking(w))
  BY DEF Keeps, IsWorld, ResetNativeTracking, Fields

LEMMA StartKeeps ==
  ASSUME NEW w, IsWorld(w), NEW fromXButton \in BOOLEAN
  PROVE  Keeps(w, StartRun(w, fromXButton))
<1> DEFINE started == [Interrupt(w) EXCEPT
                          !.run = [NoRun EXCEPT !.id = w.next, !.running = TRUE],
                          !.next = w.next + 1]
<1>a. Keeps(w, started)
  BY InterruptKeeps DEF Keeps, IsWorld, Fields
<1> HIDE DEF started
<1>b. Keeps(w, ResetNativeTracking(started))
  BY <1>a, ResetKeeps DEF Keeps
<1>c. Keeps(w, RecordEvent(ResetNativeTracking(started), "ButtonPressed"))
  BY <1>b, RecordKeeps DEF Keeps
<1> QED BY <1>b, <1>c DEF StartRun, Keeps, started

LEMMA EnsureKeeps == ASSUME NEW w, IsWorld(w) PROVE Keeps(w, EnsureRun(w))
<1> DEFINE no == FALSE
<1>a. Keeps(w, StartRun(w, no))
  BY StartKeeps
<1> QED BY <1>a DEF EnsureRun, Keeps

LEMMA ObserveKeeps ==
  ASSUME NEW w, IsWorld(w), NEW list PROVE Keeps(w, ObserveWorldMap(w, list))
<1> DEFINE found == [w EXCEPT !.tracked.map = TRUE, !.tracked.state = list]
<1>a. Keeps(w, found) /\ Keeps(w, [w EXCEPT !.tracked.map = TRUE])
  BY DEF Keeps, IsWorld, Fields
<1> HIDE DEF found
<1>b. Keeps(w, RecordEvent(found, "Stage"))
  BY <1>a, RecordKeeps DEF Keeps
<1> QED BY <1>a, <1>b DEF ObserveWorldMap, Keeps, found

LEMMA SampleKeeps ==
  ASSUME NEW w, IsWorld(w), NEW list PROVE Keeps(w, SamplePointListState(w, list))
<1> DEFINE changed == [w EXCEPT !.tracked.state = list]
<1>a. Keeps(w, changed)
  BY DEF Keeps, IsWorld, Fields
<1> HIDE DEF changed
<1>b. Keeps(w, RecordEvent(changed, "Stage"))
  BY <1>a, RecordKeeps DEF Keeps
<1> QED BY <1>b, ObserveKeeps DEF SamplePointListState, Keeps, changed

LEMMA AnimationKeeps ==
  ASSUME NEW w, IsWorld(w), NEW moved \in BOOLEAN PROVE Keeps(w, SampleTrackedAnimation(w, moved))
  BY RecordKeeps DEF SampleTrackedAnimation, Keeps

LEMMA AddedKeeps == ASSUME NEW w, IsWorld(w) PROVE Keeps(w, OperationControlsAdded(w))
  BY RecordKeeps DEF OperationControlsAdded, Keeps

LEMMA Cancels ==
  ASSUME NEW w, IsWorld(w)
  PROVE  /\ IsWorld(CancelForcedFullscreenInput(w))
         /\ CancelForcedFullscreenInput(w).forced = NotForced
         /\ IsWorld(FullscreenInputEnabled(w))
         /\ FullscreenInputEnabled(w).forced = NotForced
<1>a. IsWorld(CancelForcedFullscreenInput(w)) /\ CancelForcedFullscreenInput(w).forced = NotForced
  BY NotForcedIsTyped DEF CancelForcedFullscreenInput, IsWorld, Fields
<1> QED BY <1>a, RecordKeeps DEF FullscreenInputEnabled, Keeps

----
(* The steps. *)

LEMMA InitInv == ProfilerInit => ProfilerInv
  BY NotForcedIsTyped
  DEF ProfilerInit, ProfilerInv, ForcedInputServesOpening, NoScreen, Screens

\* A step that leaves the handover, and the screen open and without input, alone.
LEMMA KeptHandover ==
  ASSUME ProfilerInv, NEW w, Keeps(World, w), Becomes(w), screen' \in Screens,
         screen.open => screen'.open, screen'.input => screen.input,
         screen'.usable => screen'.input
  PROVE  ProfilerInv'
<1>a. forced' = forced
  BY WorldIsWorld DEF ProfilerInv, Keeps, Becomes
<1> QED BY <1>a DEF ProfilerInv, ForcedInputServesOpening, Screens

\* A step after which nothing is armed and confirmed.
LEMMA NothingForced ==
  ASSUME forced' \in Handovers, ~forced'.armed \/ ~forced'.confirmed,
         screen' \in Screens, screen'.usable => screen'.input
  PROVE  ProfilerInv'
  BY DEF ProfilerInv, ForcedInputServesOpening

\* The frame is counted; a handover made cancels what was armed.
LEMMA UpdateInv ==
  ASSUME ProfilerInv, NEW list, NEW moved \in BOOLEAN, ProfilerUpdate(list, moved)
  PROVE  ProfilerInv'
<1> DEFINE w == Aged(World)
           handed == IF ForcesHandover(w.forced) THEN HandOver(w) ELSE w
           sampled == SampleTrackedAnimation(SamplePointListState(handed, list), moved)
           ended == FinishRunWhenReady(sampled)
<1>a. /\ IsWorld(w) /\ w.forced.armed = forced.armed /\ w.forced.confirmed = forced.confirmed
  BY WorldIsWorld DEF ProfilerInv, Aged, IsWorld, Fields, Handovers
<1>b. ASSUME IsWorld(handed) PROVE Keeps(handed, ended)
  <2> HIDE DEF handed
  <2>a. Keeps(handed, SamplePointListState(handed, list))
    BY <1>b, SampleKeeps
  <2>b. Keeps(handed, sampled)
    BY <2>a, AnimationKeeps DEF Keeps
  <2> QED BY <2>b, ReadyKeeps DEF Keeps
<1>c. Becomes(ended)
  BY DEF ProfilerUpdate
<1>d. CASE ForcesHandover(w.forced)
  <2> DEFINE added == OperationControlsAdded(FullscreenInputEnabled(w))
             handedOver == [added EXCEPT !.suppressed = w.forced.object]
  <2>a. IsWorld(added) /\ added.forced = NotForced
    BY <1>a, Cancels, AddedKeeps DEF Keeps
  <2>b. IsWorld(handedOver) /\ handedOver.forced = NotForced
    <3> HIDE DEF added
    <3> QED BY <2>a DEF IsWorld, Fields
  <2>c. handed = handedOver
    BY <1>d DEF HandOver
  <2> HIDE DEF handed, handedOver, ended
  <2>d. forced' = NotForced
    BY <1>b, <1>c, <2>b, <2>c DEF Keeps, Becomes
  <2>e. screen' \in Screens /\ screen'.input
    <3> DEFINE yes == TRUE
    <3>a. yes \in BOOLEAN /\ yes
      OBVIOUS
    <3> DEFINE shown == screen.shown + 1
    <3>b. screen' = [screen EXCEPT !.input = yes, !.usable = screen.input, !.shown = shown]
      BY <1>d DEF ProfilerUpdate
    <3>c. shown \in Int
      BY DEF ProfilerInv, Screens
    <3> HIDE DEF yes, shown
    <3> QED BY <3>a, <3>b, <3>c DEF ProfilerInv, Screens
  <2> QED BY <2>d, <2>e, NotForcedIsTyped, NothingForced
<1>e. CASE ~ForcesHandover(w.forced)
  <2>a. handed = w
    BY <1>e
  <2>b. screen' = [screen EXCEPT !.usable = screen.input]
    BY <1>e DEF ProfilerUpdate
  <2> HIDE DEF handed, ended, w
  <2>c. forced' \in Handovers /\ forced'.armed = forced.armed /\ forced'.confirmed = forced.confirmed
    BY <1>a, <1>b, <1>c, <2>a DEF Keeps, Becomes, IsWorld
  <2> QED BY <2>b, <2>c DEF ProfilerInv, ForcedInputServesOpening, Screens
<1> QED BY <1>d, <1>e

\* While the screen is not open nothing is armed and confirmed; the open command
\* arms, and what it confirms or cancels is its own.
LEMMA Arms ==
  ASSUME ProfilerInv, ~screen.open
  PROVE  LET w == ArmForcedFullscreenInput(World)
         IN  IsWorld(w) /\ w.forced.armed = TRUE /\ w.forced.confirmed = FALSE
<1>a. IsWorld(World) /\ World.forced = forced
  BY WorldIsWorld DEF ProfilerInv
<1>b. [NotForced EXCEPT !.armed = TRUE] \in Handovers
  <2> DEFINE yes == TRUE
  <2>a. yes \in BOOLEAN
    OBVIOUS
  <2> HIDE DEF yes
  <2>b. [NotForced EXCEPT !.armed = yes] \in Handovers
    BY <2>a, NotForcedIsTyped DEF Handovers
  <2> QED BY <2>b DEF yes
<1>c. CASE forced.armed
  BY <1>a, <1>c DEF ArmForcedFullscreenInput, ProfilerInv, ForcedInputServesOpening, Handovers
<1>d. CASE ~forced.armed
  <2> DEFINE armed == [NotForced EXCEPT !.armed = TRUE]
  <2>a. armed.armed = TRUE /\ armed.confirmed = FALSE
    BY DEF NotForced
  <2> HIDE DEF armed
  <2>b. ArmForcedFullscreenInput(World) = [World EXCEPT !.forced = armed, !.suppressed = 0]
    BY <1>a, <1>d DEF ArmForcedFullscreenInput, armed
  <2>c. armed \in Handovers
    BY <1>b DEF armed
  <2> QED BY <1>a, <2>a, <2>b, <2>c DEF IsWorld, Fields
<1> QED BY <1>c, <1>d

\* The open command of an armed opening.
LEMMA OpenCommandResult ==
  ASSUME NEW w, IsWorld(w), w.forced.armed = TRUE, NEW created \in BOOLEAN
  PROVE  LET v == OpenCommand(w, created)
         IN  IsWorld(v) /\ (~created => v.forced = NotForced) /\ (created => v.forced.confirmed)
<1> DEFINE started == OnOpenCommandStarted(w)
           confirmed == [started EXCEPT !.forced.confirmed = started.forced.armed]
           cancelled == CancelForcedFullscreenInput(started)
           rejected == RecordEvent(cancelled, "OpenCommandRejected")
           no == FALSE
<1>a. Keeps(w, started)
  <2>a. ArmForcedFullscreenInput(w) = w
    BY DEF ArmForcedFullscreenInput
  <2>b. Keeps(w, EnsureRun(w))
    BY EnsureKeeps
  <2> QED BY <2>a, <2>b, RecordKeeps DEF OnOpenCommandStarted, Keeps
<1> HIDE DEF started
<1>b. IsWorld(confirmed) /\ confirmed.forced.confirmed = TRUE
  BY <1>a DEF Keeps, IsWorld, Fields, Handovers
<1> HIDE DEF confirmed
<1>c. Keeps(confirmed, RecordEvent(confirmed, "OpenCommandQueued"))
  BY <1>b, RecordKeeps
<1>d. IsWorld(cancelled) /\ cancelled.forced = NotForced
  BY <1>a, Cancels DEF Keeps
<1> HIDE DEF cancelled
<1>e. Keeps(cancelled, rejected)
  BY <1>d, RecordKeeps
<1> HIDE DEF rejected
<1>f. Keeps(cancelled, FinishRun(rejected, no))
  BY <1>e, FinishKeeps DEF Keeps
<1>g. OpenCommand(w, created) = IF created THEN RecordEvent(confirmed, "OpenCommandQueued")
                                ELSE FinishRun(rejected, FALSE)
  BY DEF OpenCommand, OnOpenCommandResult, started, confirmed, cancelled, rejected
<1>h. CASE created
  BY <1>b, <1>c, <1>g, <1>h DEF Keeps
<1>i. CASE ~created
  BY <1>d, <1>f, <1>g, <1>i DEF Keeps, no
<1> QED BY <1>h, <1>i

LEMMA Opened ==
  ASSUME ProfilerInv, NEW w, Becomes(w), IsWorld(w), NEW created \in BOOLEAN, Opens(created),
         ~created => ~w.forced.armed \/ ~w.forced.confirmed
  PROVE  ProfilerInv'
<1>a. forced' = w.forced /\ forced' \in Handovers
  BY DEF Becomes, IsWorld
<1>b. CASE created
  <2> DEFINE yes == TRUE
  <2>a. yes \in BOOLEAN /\ yes
    OBVIOUS
  <2>b. screen' = [NoScreen EXCEPT !.open = yes]
    BY <1>b DEF Opens
  <2> HIDE DEF yes
  <2>c. NoScreen \in Screens /\ ~NoScreen.input /\ ~NoScreen.usable
    BY DEF NoScreen, Screens
  <2>d. screen' \in Screens /\ screen'.open /\ ~screen'.input /\ ~screen'.usable
    BY <2>a, <2>b, <2>c DEF Screens
  <2> QED BY <1>a, <2>d DEF ProfilerInv, ForcedInputServesOpening
<1>c. CASE ~created
  BY <1>a, <1>c, NothingForced DEF Opens, ProfilerInv
<1> QED BY <1>b, <1>c

LEMMA MainMenuCreateInv ==
  ASSUME ProfilerInv, NEW created \in BOOLEAN, MainMenuCreate(created) PROVE ProfilerInv'
<1>a. Becomes(OpenCommand(World, created)) /\ Opens(created) /\ ~screen.open
  BY DEF MainMenuCreate
<1>b. IsWorld(OpenCommand(World, created)) /\
      (~created => OpenCommand(World, created).forced = NotForced)
  <2> DEFINE w == ArmForcedFullscreenInput(World)
  <2>a. IsWorld(w) /\ w.forced.armed = TRUE
    BY <1>a, Arms
  <2>b. ArmForcedFullscreenInput(w) = w
    BY <2>a DEF ArmForcedFullscreenInput
  <2>c. OpenCommand(World, created) = OpenCommand(w, created)
    BY <2>b DEF OpenCommand, OnOpenCommandStarted
  <2> HIDE DEF w
  <2> QED BY <2>a, <2>c, OpenCommandResult
<1> QED BY <1>a, <1>b, NotForcedIsTyped, Opened

LEMMA TravelButtonOpenInv ==
  ASSUME ProfilerInv, NEW commands \in BOOLEAN, NEW created \in BOOLEAN,
         TravelButtonOpen(commands, created)
  PROVE  ProfilerInv'
<1> DEFINE armed == ArmForcedFullscreenInput(World)
           yes == TRUE
           no == FALSE
           pressed == StartRun(armed, TRUE)
           asked == IF commands THEN OpenCommand(pressed, created) ELSE pressed
           disarmed == IF asked.forced.confirmed THEN asked ELSE CancelForcedFullscreenInput(asked)
           rejected == RecordEvent(disarmed, "OpenCommandRejected")
           finished == OnOpenButtonFinished(asked)
<1>a. Becomes(finished) /\ Opens(created) /\ ~screen.open /\ (created => commands)
  BY DEF TravelButtonOpen
<1>b. IsWorld(armed) /\ armed.forced.armed = TRUE /\ armed.forced.confirmed = FALSE
  BY <1>a, Arms
<1>c. Keeps(armed, pressed)
  <2> HIDE DEF armed
  <2>a. Keeps(armed, StartRun(armed, yes))
    BY <1>b, StartKeeps
  <2> QED BY <2>a
<1> HIDE DEF armed, pressed
<1>d. /\ IsWorld(asked)
      /\ ~created => ~asked.forced.armed \/ ~asked.forced.confirmed
  <2>a. CASE commands
    <3>a. IsWorld(pressed) /\ pressed.forced.armed = TRUE
      BY <1>b, <1>c DEF Keeps
    <3>b. /\ IsWorld(OpenCommand(pressed, created))
          /\ ~created => OpenCommand(pressed, created).forced = NotForced
      BY <3>a, OpenCommandResult
    <3> QED BY <2>a, <3>b, NotForcedIsTyped
  <2>b. CASE ~commands
    BY <1>b, <1>c, <2>b DEF Keeps
  <2> QED BY <2>a, <2>b
<1> HIDE DEF asked
<1>e. /\ IsWorld(disarmed)
      /\ ~created => ~disarmed.forced.armed \/ ~disarmed.forced.confirmed
  BY <1>d, Cancels, NotForcedIsTyped
<1> HIDE DEF disarmed
<1>f. Keeps(disarmed, rejected)
  BY <1>e, RecordKeeps
<1> HIDE DEF rejected
<1>g. Keeps(disarmed, FinishRun(rejected, no))
  BY <1>f, FinishKeeps DEF Keeps
<1>h. Keeps(disarmed, finished)
  <2>a. finished = FinishRun(rejected, FALSE) \/ finished = disarmed
    BY DEF OnOpenButtonFinished, disarmed, rejected
  <2> QED BY <1>e, <1>g, <2>a DEF Keeps
<1> HIDE DEF finished
<1> QED BY <1>a, <1>e, <1>h, Opened DEF Keeps

----
(* The screen's stages, the window and the scene change. *)

\* A stage that changes neither the handover nor the screen.
LEMMA StageInv ==
  ASSUME ProfilerInv, NEW w, Keeps(World, w), Becomes(w), UNCHANGED screen
  PROVE  ProfilerInv'
  BY KeptHandover DEF ProfilerInv

LEMMA ObservedKeeps ==
  ASSUME ProfilerInv, NEW onMap \in BOOLEAN, NEW list, NEW event
  PROVE  Keeps(World, RecordEvent(IF onMap THEN ObserveWorldMap(World, list) ELSE World, event))
<1>a. IsWorld(World)
  BY WorldIsWorld DEF ProfilerInv
<1> DEFINE seen == IF onMap THEN ObserveWorldMap(World, list) ELSE World
<1>b. Keeps(World, seen)
  BY <1>a, ObserveKeeps DEF Keeps
<1> HIDE DEF seen
<1>c. Keeps(World, RecordEvent(seen, event))
  BY <1>b, RecordKeeps DEF Keeps
<1> QED BY <1>c DEF seen

LEMMA NativeStageInv ==
  ASSUME ProfilerInv, NEW onMap \in BOOLEAN, NEW list, NativeStage(onMap, list)
  PROVE  ProfilerInv'
  BY ObservedKeeps, StageInv DEF NativeStage

LEMMA SeqNextInv ==
  ASSUME ProfilerInv, NEW onMap \in BOOLEAN, NEW list, NEW finished \in BOOLEAN,
         SeqNext(onMap, list, finished)
  PROVE  ProfilerInv'
<1> DEFINE started == RecordEvent(IF onMap THEN ObserveWorldMap(World, list) ELSE World, "Stage")
           w == IF finished THEN RecordEvent(started, "SeqNextComplete") ELSE started
<1>a. Keeps(World, started)
  BY ObservedKeeps
<1>b. Becomes(w) /\ UNCHANGED screen
  BY DEF SeqNext
<1> HIDE DEF started
<1>c. Keeps(World, w)
  BY <1>a, RecordKeeps DEF Keeps
<1> HIDE DEF w
<1> QED BY <1>b, <1>c, StageInv

LEMMA PointAnimationCompleteInv ==
  ASSUME ProfilerInv, NEW list, PointAnimationComplete(list) PROVE ProfilerInv'
<1> DEFINE seen == ObserveWorldMap(World, list)
           yes == TRUE
           w == RecordStages(SampleTrackedAnimation(seen, TRUE))
<1>a. Keeps(World, seen)
  BY WorldIsWorld, ObserveKeeps DEF ProfilerInv
<1>b. Becomes(w) /\ UNCHANGED screen
  BY DEF PointAnimationComplete
<1> HIDE DEF seen
<1>c. Keeps(World, SampleTrackedAnimation(seen, yes))
  BY <1>a, AnimationKeeps DEF Keeps
<1>d. Keeps(World, w)
  BY <1>c, StagesKeep DEF Keeps
<1> HIDE DEF w
<1> QED BY <1>b, <1>d, StageInv

\* The open event names the object that will hold the controls, no more.
LEMMA PointOpenInv ==
  ASSUME ProfilerInv, NEW object \in ControlsObject, NEW list,
         NEW hooks \in BOOLEAN, NEW moved \in BOOLEAN, PointOpen(object, list, hooks, moved)
  PROVE  ProfilerInv'
<1> DEFINE seen == ObserveWorldMap(World, list)
           yes == TRUE
           taken == [seen EXCEPT
               !.forced.object = IF seen.forced.armed /\ seen.forced.confirmed THEN object ELSE @,
               !.tracked.animation = FALSE]
           staged == RecordEvent(taken, "Stage")
           withAnimation == [staged EXCEPT !.tracked.animation = taken.run.running]
           hooked == RecordStages(withAnimation)
           inner == IF hooks THEN SampleTrackedAnimation(hooked, yes) ELSE staged
           opened == RecordEvent(inner, "Stage")
           sampled == SamplePointListState(opened, list)
           w == SampleTrackedAnimation(sampled, yes)
<1>a. Becomes(w) /\ screen.open /\ screen' = [screen EXCEPT !.object = object]
  BY DEF PointOpen
<1>b. Keeps(World, seen)
  BY WorldIsWorld, ObserveKeeps DEF ProfilerInv
<1> HIDE DEF seen
<1>c. /\ IsWorld(taken)
      /\ taken.forced.armed = forced.armed /\ taken.forced.confirmed = forced.confirmed
  <2>a. seen.forced = forced /\ forced \in Handovers
    BY <1>b, WorldIsWorld DEF Keeps, ProfilerInv
  <2> DEFINE target == IF seen.forced.armed /\ seen.forced.confirmed THEN object ELSE seen.forced.object
  <2>b. taken.forced = [forced EXCEPT !.object = target] /\ taken = [field \in Fields |-> taken[field]]
    BY <1>b, <2>a DEF Keeps, IsWorld, Fields
  <2>c. target \in ControlsObject \cup {0}
    BY <2>a DEF Handovers
  <2> HIDE DEF taken, target
  <2>d. [forced EXCEPT !.object = target] \in Handovers
    BY <2>a, <2>c DEF Handovers
  <2> QED BY <2>a, <2>b, <2>d DEF IsWorld, Handovers
<1> HIDE DEF taken
<1>d. Keeps(taken, staged)
  BY <1>c, RecordKeeps
<1> HIDE DEF staged
<1>e. Keeps(taken, withAnimation)
  BY <1>d DEF Keeps, IsWorld, Fields
<1> HIDE DEF withAnimation
<1>f. Keeps(taken, hooked)
  BY <1>e, StagesKeep DEF Keeps
<1> HIDE DEF hooked
<1>g. Keeps(taken, inner)
  BY <1>d, <1>f, AnimationKeeps DEF Keeps
<1> HIDE DEF inner
<1>h. Keeps(taken, opened)
  BY <1>g, RecordKeeps DEF Keeps
<1> HIDE DEF opened
<1>i. Keeps(taken, sampled)
  BY <1>h, SampleKeeps DEF Keeps
<1> HIDE DEF sampled
<1>j.  Keeps(taken, w)
  BY <1>i, AnimationKeeps DEF Keeps
<1> HIDE DEF w
<1>k.  forced' \in Handovers /\ forced'.armed = forced.armed /\ forced'.confirmed = forced.confirmed
  BY <1>a, <1>c, <1>j DEF Keeps, Becomes, IsWorld
<1> QED BY <1>a, <1>k DEF ProfilerInv, ForcedInputServesOpening, Screens

LEMMA EnableInputInv == ASSUME ProfilerInv, EnableInput PROVE ProfilerInv'
<1> DEFINE w == FullscreenInputEnabled(World)
           yes == TRUE
<1>a. forced' = NotForced
  BY WorldIsWorld, Cancels DEF ProfilerInv, EnableInput, Becomes
<1>b. yes \in BOOLEAN /\ yes /\ screen' = [screen EXCEPT !.input = yes, !.native = yes]
  BY DEF EnableInput
<1> HIDE DEF yes
<1>c. screen' \in Screens /\ screen'.input
  BY <1>b DEF ProfilerInv, Screens
<1> QED BY <1>a, <1>c, NotForcedIsTyped, NothingForced

LEMMA AddOperationControlsInv ==
  ASSUME ProfilerInv, NEW object \in ControlsObject, AddOperationControls(object)
  PROVE  ProfilerInv'
<1> DEFINE yes == TRUE
           served == [World EXCEPT !.suppressed = 0]
           shown == IF Swallows(object) THEN screen.shown ELSE screen.shown + 1
           w == IF Swallows(object) THEN served ELSE OperationControlsAdded(World)
<1>a. Becomes(w)
  BY DEF AddOperationControls
<1>b. Keeps(World, w)
  <2>a. Keeps(World, served)
    BY WorldIsWorld DEF ProfilerInv, Keeps, IsWorld, Fields
  <2> QED BY <2>a, WorldIsWorld, AddedKeeps DEF ProfilerInv
<1>c. yes \in BOOLEAN /\ screen' = [screen EXCEPT !.asked = yes, !.object = object, !.shown = shown]
  BY DEF AddOperationControls
<1>d. shown \in Int
  BY DEF ProfilerInv, Screens
<1> HIDE DEF w, yes, shown
<1>e. /\ screen' \in Screens /\ screen'.open = screen.open /\ screen'.input = screen.input
      /\ screen'.usable = screen.usable
  BY <1>c, <1>d DEF ProfilerInv, Screens
<1> QED BY <1>a, <1>b, <1>e, KeptHandover DEF ProfilerInv

LEMMA AddOtherControlsInv == ASSUME ProfilerInv, AddOtherControls PROVE ProfilerInv'
<1>a. Keeps(World, OperationControlsAdded(World))
  BY WorldIsWorld, AddedKeeps DEF ProfilerInv
<1> QED BY <1>a, StageInv DEF AddOtherControls

LEMMA LeaveInv == ASSUME ProfilerInv, Leave PROVE ProfilerInv'
<1>a. ~forced.armed \/ ~forced.confirmed
  BY DEF ProfilerInv, ForcedInputServesOpening, Leave
<1> QED BY <1>a, NothingForced DEF ProfilerInv, Leave, NoScreen, Screens

LEMMA OnSceneTransitionInv == ASSUME ProfilerInv, ProfilerSceneTransition PROVE ProfilerInv'
<1> DEFINE cancelled == CancelForcedFullscreenInput(Interrupt(World))
           reset == ResetNativeTracking(cancelled)
           w == [reset EXCEPT !.suppressed = 0]
<1>a. IsWorld(cancelled) /\ cancelled.forced = NotForced
  BY WorldIsWorld, InterruptKeeps, Cancels DEF ProfilerInv, Keeps
<1>b. Becomes(w) /\ screen' = NoScreen
  BY DEF ProfilerSceneTransition
<1> HIDE DEF cancelled
<1>c. IsWorld(reset) /\ reset.forced = NotForced
  BY <1>a, ResetKeeps DEF Keeps
<1> HIDE DEF reset
<1>d. w.forced = NotForced
  BY <1>c DEF IsWorld, Fields
<1> HIDE DEF w
<1>e. forced' = NotForced
  BY <1>b, <1>d DEF Becomes
<1> QED BY <1>b, <1>e, NotForcedIsTyped, NothingForced DEF NoScreen, Screens

LEMMA WindowInv == ASSUME ProfilerInv, ToggleCapture \/ ClearRuns PROVE ProfilerInv'
<1>a. CASE ToggleCapture
  <2> DEFINE w == IF captureEnabled THEN Interrupt(World) ELSE World
  <2>a. Keeps(World, w)
    BY WorldIsWorld, InterruptKeeps DEF ProfilerInv, Keeps
  <2>b. Becomes(w) /\ UNCHANGED screen
    BY <1>a DEF ToggleCapture
  <2> HIDE DEF w
  <2> QED BY <2>a, <2>b, StageInv
<1>b. CASE ClearRuns
  BY <1>b DEF ClearRuns, ProfilerInv, ForcedInputServesOpening
<1> QED BY <1>a, <1>b

LEMMA ProfilerStep == ProfilerInv /\ [ProfilerNext]_profilerVars => ProfilerInv'
<1> SUFFICES ASSUME ProfilerInv, [ProfilerNext]_profilerVars PROVE ProfilerInv'
  OBVIOUS
<1>a. CASE UNCHANGED profilerVars
  BY <1>a DEF profilerVars, ProfilerInv, ForcedInputServesOpening
<1>b. CASE \E list \in PointList \cup {"none"}, moved \in BOOLEAN : ProfilerUpdate(list, moved)
  BY <1>b, UpdateInv
<1>c. CASE Opening
  BY <1>c, MainMenuCreateInv, TravelButtonOpenInv DEF Opening
<1>d. CASE Stages
  BY <1>d, NativeStageInv, SeqNextInv, PointAnimationCompleteInv, PointOpenInv,
     EnableInputInv, AddOperationControlsInv, AddOtherControlsInv, LeaveInv DEF Stages
<1>e. CASE ProfilerSceneTransition
  BY <1>e, OnSceneTransitionInv
<1>f. CASE ToggleCapture \/ ClearRuns
  BY <1>f, WindowInv
<1> QED BY <1>a, <1>b, <1>c, <1>d, <1>e, <1>f DEF ProfilerNext

\* SkipTravelProfiler!ForcedInputServesOpening, for every number of frames, runs and
\* objects: Update never hands over a screen that was left or handed over already.
THEOREM ForcedInputServesOpeningHolds == ProfilerSpec => []ForcedInputServesOpening
<1>a. ProfilerInv => ForcedInputServesOpening
  BY DEF ProfilerInv
<1> QED BY InitInv, ProfilerStep, <1>a, PTL DEF ProfilerSpec

====
