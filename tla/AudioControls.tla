----------------------------- MODULE AudioControls -----------------------------
(* AudioControls.cpp with the settings file of UtilityMenu.cpp that keeps its     *)
(* switch: background music off is volumes held at zero, on is the volumes that   *)
(* were there.  The engine's sound object comes, goes and is set up under it.     *)
EXTENDS Integers

CONSTANTS
    Bgm,                        \* the volume categories: event, game and menu
    Level,                      \* audible volumes
    Full,                       \* 1.f, one of them
    Silent,                     \* 0.f
    Sound, NoSound,             \* addresses a GfSound may have
    ExistingSoundReadyFrames,
    SilentRecoveryFrames,
    AudioFaults                 \* a part of {"WriteFails", "PluginReload"}

ASSUME AudioAssumption ==
    /\ Bgm # {}
    /\ Full \in Level
    /\ Silent \notin Level
    /\ NoSound \notin Sound
    /\ ExistingSoundReadyFrames \in Nat \ {0}
    /\ SilentRecoveryFrames \in Nat \ {0}

Volumes == [Bgm -> Level \cup {Silent}]
AllSilent == [bgm \in Bgm |-> Silent]
AllFull == [bgm \in Bgm |-> Full]

VARIABLES
    BackgroundMusic, Muted, SavedVolume,
    ReadyGfSound, CandidateGfSound, CandidateStableFrames, LastMasterVolume,
    EnabledStateAppliedForMaster, EnabledSilentFrames,
    toolWindows, lastSaved,     \* toolWindows.toml, and what was last written to it
    sound, volume,              \* game: the singleton and its volumes
    volumeOptions,              \* game: what the player set them to
    silencedBy,                 \* history: whose mute the zeros of the volumes are:
                                \* ours, or that of an instance loaded before
    silentFor,                  \* history: updates in a row that left enabled music silent
    entering                    \* history: no update has seen the new map yet

switchVars == <<BackgroundMusic, Muted, SavedVolume>>
readyVars == <<ReadyGfSound, CandidateGfSound, CandidateStableFrames, LastMasterVolume>>
enabledVars == <<EnabledStateAppliedForMaster, EnabledSilentFrames>>
fileVars == <<toolWindows, lastSaved>>
soundVars == <<sound, volume, volumeOptions>>
heardVars == <<silencedBy, silentFor, entering>>
audioVars == <<switchVars, readyVars, enabledVars, fileVars, soundVars, heardVars>>

\* The switch toolWindows.toml holds, if it can be read.
File == {"On", "Off", "Unreadable"}

AudioTypeOK ==
    /\ BackgroundMusic \in BOOLEAN
    /\ Muted \in BOOLEAN
    /\ SavedVolume \in Volumes
    /\ ReadyGfSound \in Sound \cup {NoSound}
    /\ CandidateGfSound \in Sound \cup {NoSound}
    /\ CandidateStableFrames \in 0 .. ExistingSoundReadyFrames
    /\ LastMasterVolume \in Sound \cup {NoSound}
    /\ EnabledStateAppliedForMaster \in BOOLEAN
    /\ EnabledSilentFrames \in 0 .. SilentRecoveryFrames - 1
    /\ toolWindows \in File
    /\ lastSaved \in BOOLEAN
    /\ sound \in Sound \cup {NoSound}
    /\ volume \in Volumes
    /\ volumeOptions \in Volumes
    /\ silencedBy \in {"NoOne", "Us", "Before"}
    /\ silentFor \in Nat
    /\ entering \in BOOLEAN

-------------------------------------------------------------------------------
\* The statics of the module and UtilityMenu::Initialize.
LoadedSwitch == toolWindows # "Off"

AudioInit ==
    /\ toolWindows \in File
    /\ BackgroundMusic = LoadedSwitch
    /\ lastSaved = LoadedSwitch
    /\ Muted = FALSE
    /\ SavedVolume = AllFull
    /\ ReadyGfSound = NoSound
    /\ CandidateGfSound = NoSound
    /\ CandidateStableFrames = 0
    /\ LastMasterVolume = NoSound
    /\ EnabledStateAppliedForMaster = FALSE
    /\ EnabledSilentFrames = 0
    /\ sound = NoSound
    /\ volume = AllFull
    /\ volumeOptions \in Volumes
    /\ silencedBy = "NoOne"
    /\ silentFor = 0
    /\ entering = FALSE

\* The plugin is loaded again while the game runs on: only the file and the
\* volumes the old instance left survive, and the new one does not know whose they
\* are.
ReloadPlugin ==
    /\ "PluginReload" \in AudioFaults
    /\ BackgroundMusic' = LoadedSwitch
    /\ lastSaved' = LoadedSwitch
    /\ Muted' = FALSE
    /\ SavedVolume' = AllFull
    /\ ReadyGfSound' = NoSound
    /\ CandidateGfSound' = NoSound
    /\ CandidateStableFrames' = 0
    /\ LastMasterVolume' = NoSound
    /\ EnabledStateAppliedForMaster' = FALSE
    /\ EnabledSilentFrames' = 0
    /\ silencedBy' = IF silencedBy = "Us" THEN "Before" ELSE silencedBy
    /\ silentFor' = 0
    /\ UNCHANGED <<toolWindows, soundVars, entering>>

\* The enabled state has to be applied again.
InvalidateEnabledState ==
    /\ EnabledStateAppliedForMaster' = FALSE
    /\ EnabledSilentFrames' = 0

-------------------------------------------------------------------------------
(* The game's sound. *)

\* Zeros stay the mute's until the game sets a level.
SilenceAfterGame == silencedBy' = IF volume' = AllSilent THEN silencedBy ELSE "NoOne"

\* The engine makes a GfSound; its volumes are not the player's before setupGame.
GameCreatesSound ==
    /\ sound = NoSound
    /\ sound' \in Sound
    /\ volume' \in {AllSilent, AllFull}
    /\ silencedBy' = "NoOne"
    /\ UNCHANGED <<switchVars, readyVars, enabledVars, fileVars, volumeOptions,
                   silentFor, entering>>

GameDestroysSound ==
    /\ sound # NoSound
    /\ sound' = NoSound
    /\ silentFor' = 0
    /\ UNCHANGED <<switchVars, readyVars, enabledVars, fileVars, volume, volumeOptions,
                   silencedBy, entering>>

GfSoundSetupGameHook ==
    /\ sound # NoSound
    /\ volume' = volumeOptions
    /\ ReadyGfSound' = sound
    /\ CandidateGfSound' = sound
    /\ CandidateStableFrames' = ExistingSoundReadyFrames
    /\ LastMasterVolume' = NoSound
    /\ InvalidateEnabledState
    /\ silencedBy' = "NoOne"
    /\ UNCHANGED <<switchVars, fileVars, sound, volumeOptions, silentFor, entering>>

\* The player moves a volume option, which the game applies at once.
GameOptionChanged ==
    /\ sound # NoSound
    /\ \E level \in Level \cup {Silent}, bgm \in Bgm :
        /\ volumeOptions' = [volumeOptions EXCEPT ![bgm] = level]
        /\ volume' = [volume EXCEPT ![bgm] = level]
    /\ SilenceAfterGame
    /\ UNCHANGED <<switchVars, readyVars, enabledVars, fileVars, sound, silentFor,
                   entering>>

\* A load rebuilds the categories from the options, or zeroes them.
GameLoadRewritesVolumes ==
    /\ sound # NoSound
    /\ volume' \in {volumeOptions, AllSilent}
    /\ SilenceAfterGame
    /\ UNCHANGED <<switchVars, readyVars, enabledVars, fileVars, sound, volumeOptions,
                   silentFor, entering>>

-------------------------------------------------------------------------------
(* AudioControls::Update. *)

\* What an enabled toggle sets: the saved levels, or full volume for want of any.
RestoredVolumes == IF SavedVolume = AllSilent THEN AllFull ELSE SavedVolume

UpdateWithoutSound ==
    /\ sound = NoSound
    /\ LastMasterVolume' = NoSound
    /\ ReadyGfSound' = NoSound
    /\ CandidateGfSound' = NoSound
    /\ CandidateStableFrames' = 0
    /\ InvalidateEnabledState
    /\ UNCHANGED <<switchVars, fileVars, soundVars, heardVars>>

\* A sound whose setup was not seen has to stay the same for a while.
StableFrames == IF sound = CandidateGfSound THEN CandidateStableFrames + 1 ELSE 1

UpdateWaits ==
    /\ sound \notin {NoSound, ReadyGfSound}
    /\ StableFrames < ExistingSoundReadyFrames
    /\ CandidateGfSound' = sound
    /\ CandidateStableFrames' = StableFrames
    /\ silentFor' = IF BackgroundMusic /\ volume = AllSilent THEN silentFor + 1 ELSE 0
    /\ UNCHANGED <<switchVars, ReadyGfSound, LastMasterVolume, enabledVars, fileVars,
                   soundVars, silencedBy, entering>>

BecomesReady ==
    /\ sound # NoSound
    /\ \/ /\ sound = ReadyGfSound
          /\ UNCHANGED <<CandidateGfSound, CandidateStableFrames>>
       \/ /\ sound # ReadyGfSound
          /\ StableFrames >= ExistingSoundReadyFrames
          /\ CandidateGfSound' = sound
          /\ CandidateStableFrames' = StableFrames
    /\ ReadyGfSound' = sound
    /\ LastMasterVolume' = sound

\* The flag and the counter as they are for this master volume.
AppliedHere == LastMasterVolume = sound /\ EnabledStateAppliedForMaster
SilentFramesHere == IF LastMasterVolume = sound THEN EnabledSilentFrames ELSE 0

\* Mutant: the wrong flag tells that the levels were saved.
SavesUnappliedLevels == ~Muted \/ ~AppliedHere

SavesLevels == ~Muted

HoldSilence ==
    /\ EnabledSilentFrames' = 0
    /\ IF SavesLevels
       THEN /\ SavedVolume' = volume
            /\ Muted' = TRUE
            /\ EnabledStateAppliedForMaster' = FALSE
       ELSE /\ EnabledStateAppliedForMaster' = AppliedHere
            /\ UNCHANGED <<Muted, SavedVolume>>
    /\ volume' = AllSilent
    /\ silencedBy' = IF volume # AllSilent THEN "Us" ELSE silencedBy
    /\ silentFor' = 0

\* Mutant: silence is no longer watched once the enabled state was applied.
AppliesOnce(silentFrames) == Muted \/ ~AppliedHere

AppliesLevels(silentFrames) ==
    Muted \/ ~AppliedHere \/ silentFrames >= SilentRecoveryFrames

KeepAudible ==
    LET silentFrames == IF volume = AllSilent THEN SilentFramesHere + 1 ELSE 0
    IN  /\ IF AppliesLevels(silentFrames)
           THEN volume' = RestoredVolumes /\ EnabledSilentFrames' = 0
           ELSE EnabledSilentFrames' = silentFrames /\ UNCHANGED volume
        /\ Muted' = FALSE
        /\ EnabledStateAppliedForMaster' = TRUE
        /\ silencedBy' = IF volume' = volume THEN silencedBy ELSE "NoOne"
        /\ silentFor' = IF volume' # AllSilent THEN 0
                        ELSE IF silentFor < SilentRecoveryFrames THEN silentFor + 1
                        ELSE silentFor
        /\ UNCHANGED SavedVolume

UpdateReady ==
    /\ BecomesReady
    /\ IF BackgroundMusic THEN KeepAudible ELSE HoldSilence
    /\ entering' = FALSE
    /\ UNCHANGED <<BackgroundMusic, fileVars, sound, volumeOptions>>

AudioUpdate == UpdateWithoutSound \/ UpdateWaits \/ UpdateReady

AudioOnMapChange ==
    /\ InvalidateEnabledState
    /\ entering' = TRUE
    /\ UNCHANGED <<switchVars, readyVars, fileVars, soundVars, silencedBy, silentFor>>

-------------------------------------------------------------------------------
(* The utility window: its check box, and SaveStateIfChanged at its end. *)

ToggleBackgroundMusic ==
    /\ BackgroundMusic' = ~BackgroundMusic
    /\ UNCHANGED <<Muted, SavedVolume, readyVars, enabledVars, fileVars, soundVars,
                   heardVars>>

\* The switch changes the length of the file, so that it is made anew before it is
\* written; whether the write went through is not asked.
SaveStateIfChanged ==
    /\ BackgroundMusic # lastSaved
    /\ lastSaved' = BackgroundMusic
    /\ \/ toolWindows' = IF BackgroundMusic THEN "On" ELSE "Off"
       \/ "WriteFails" \in AudioFaults /\ toolWindows' = "Unreadable"
    /\ UNCHANGED <<switchVars, readyVars, enabledVars, soundVars, heardVars>>

AudioGame ==
    \/ GameCreatesSound
    \/ GameDestroysSound
    \/ GfSoundSetupGameHook
    \/ GameOptionChanged
    \/ GameLoadRewritesVolumes
    \/ AudioOnMapChange

AudioNext ==
    \/ AudioGame
    \/ AudioUpdate
    \/ ToggleBackgroundMusic
    \/ SaveStateIfChanged
    \/ ReloadPlugin

AudioSpec == AudioInit /\ [][AudioNext]_audioVars

-------------------------------------------------------------------------------
\* What a mute saves as the player's levels is never its own silence: through map
\* changes, new sound objects and loads, the switch remembers that it is down until
\* it has given the levels back.  Silence that a plugin loaded before this one left
\* is another matter: the levels went with that instance, this one may save the
\* zeros as the player's, and what it gives back for them is full volume.
SavedIsNotOurSilence ==
    [][/\ SavedVolume # AllSilent /\ SavedVolume' = AllSilent => silencedBy # "Us"
       /\ silencedBy = "Before" /\ UpdateReady /\ volume' # AllSilent =>
              volume' = AllFull]_audioVars

\* Enabled music is silent for fewer than SilentRecoveryFrames updates in a row, or,
\* on a sound that is not known to be ready, fewer than ExistingSoundReadyFrames: the
\* flag and the counters are never reset in an order that lets silence stay.
SilenceIsRecovered ==
    \/ silentFor < SilentRecoveryFrames
    \/ LastMasterVolume # sound /\ silentFor < ExistingSoundReadyFrames

\* OnMapChange's comment: the newly loaded region receives the user's saved
\* levels on its first safe update.
RegionReceivesUsersLevels ==
    [][entering /\ ~entering' /\ BackgroundMusic => volume' = volumeOptions]_audioVars

================================================================================
