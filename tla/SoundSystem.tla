---------------------------- MODULE SoundSystem ----------------------------
(***************************************************************************)
(* The sound system (entity/systems/sound_system.c) with the sound and the *)
(* music components it mixes.  Three threads meet in it: scripts on the    *)
(* main thread, the job that resolves assets in the EARLY phase while main *)
(* waits, and the audio device's callback.  One recursive mutex guards the *)
(* arrays and the playback state; the asset library is not guarded.        *)
(*                                                                         *)
(* What runs under the mutex and touches nothing outside it is one step.   *)
(* The callback keeps the mutex over many: main may free components, load  *)
(* assets and start frames meanwhile.                                      *)
(***************************************************************************)
EXTENDS Naturals, Sequences, SequencesExt

CONSTANTS
  Sounds, Musics,  \* sound and music components
  Tracks,          \* music assets
  NoTrack,         \* current_pcm = NULL
  Frames,          \* bound: sample frames of every asset
  MaxTracks        \* bound: length of a playlist

ASSUME SoundAssumption == /\ Frames \in Nat \ {0}
                          /\ MaxTracks \in Nat \ {0}
                          /\ NoTrack \notin Tracks
                          /\ Sounds \cap Musics = {}

VARIABLES
  soundLock,  \* who holds the mutex: nobody, main (after a leak only), audio
  soundMain,  \* what main is doing
  audio,      \* the locals of the device callback
  device,     \* the playback device runs
  stage,      \* of each component: new, added, astray, removed, freed, lost
  mixable,    \* the arrays of the system: data->sounds and data->music
  sound,      \* the playback state of the sound components
  music,      \* the playback state of the music components
  soundFault  \* memory read that is not there

soundVars == <<soundLock, soundMain, audio, device, stage, mixable, sound, music, soundFault>>
playback  == <<stage, mixable, sound, music>>

Players == Sounds \cup Musics

(* frame_count is that of the cached samples, or 0 without.  What scripts   *)
(* set at any time and playback only reads (repeat, active) is a free choice *)
(* where it is read.                                                        *)
Asset      == {"none", "named", "cached"}
SoundState == [asset : Asset, playing : BOOLEAN, pos : 0..Frames]

(* cut is history: the current track left the playlist while it plays.      *)
MusicState == [tracks : BoundedSeq(Tracks, MaxTracks), current : 0..MaxTracks,
               pcm : Tracks \cup {NoTrack}, playing : BOOLEAN,
               pos : 0..Frames, cut : BOOLEAN]

(* A component is astray when the arrays list it and no entity has to take  *)
(* it out of them before it is freed: it was attached again while listed,   *)
(* or taken from its entity by components:remove, pop or shift, which tell  *)
(* no system.  One that is freed then, or whose entity is, is lost.         *)
Stage == {"new", "added", "astray", "removed", "freed", "lost"}

(* The locals of sound_sys_data_callback: where it is, the components it    *)
(* has yet to mix, and for which of them it looks a track up, perhaps       *)
(* because one ended.                                                       *)
Callback == [at : {"idle", "entered", "mixing", "lookup"}, todo : SUBSET Players,
             seeks : SUBSET Musics, advancing : BOOLEAN]

Idle == [at |-> "idle", todo |-> {}, seeks |-> {}, advancing |-> FALSE]

SoundTypeOK == /\ soundLock \in {"nobody", "main", "audio"}
               /\ soundMain \in {"script", "loading", "early", "updated",
                                 "stopping", "closing", "over"}
               /\ audio \in Callback
               /\ device \in BOOLEAN
               /\ stage \in [Players -> Stage]
               /\ mixable \subseteq Players
               /\ sound \in [Sounds -> SoundState]
               /\ music \in [Musics -> MusicState]
               /\ soundFault \subseteq {"stray", "component", "samples", "system"}

(* _entity_component_sound_make and _entity_component_music_make.           *)
NewSound == [asset |-> "none", playing |-> FALSE, pos |-> 0]
NewMusic == [tracks |-> <<>>, current |-> 0, pcm |-> NoTrack, playing |-> FALSE,
             pos |-> 0, cut |-> FALSE]

(* sound_sys_init: the mutex, and the default device when there is one.     *)
SoundInit == /\ soundLock = "nobody" /\ soundMain = "script"
             /\ audio = Idle
             /\ device \in BOOLEAN
             /\ stage = [p \in Players |-> "new"] /\ mixable = {}
             /\ sound = [s \in Sounds |-> NewSound]
             /\ music = [m \in Musics |-> NewMusic]
             /\ soundFault = {}
-----------------------------------------------------------------------------
(* The main thread: scripts, and the engine's notifications.                *)

(* What the program does after it read freed memory is undefined, and left  *)
(* out: only the read itself may set soundFault.                            *)
Defined     == soundFault = {}
NothingRead == Defined /\ UNCHANGED soundFault

(* The mutex is recursive: one that main has leaked does not stop main.     *)
MainMayLock == soundLock \in {"nobody", "main"}

(* A section of a script under the mutex.                                   *)
Locked == /\ soundMain = "script" /\ MainMayLock /\ NothingRead
          /\ UNCHANGED <<soundLock, soundMain, audio, device>>

InUse(p) == stage[p] \in {"new", "added", "astray"}

SetSound(s, state) == Locked /\ sound' = [sound EXCEPT ![s] = state]
                             /\ UNCHANGED <<stage, mixable, music>>
SetMusic(m, state) == Locked /\ music' = [music EXCEPT ![m] = state]
                             /\ UNCHANGED <<stage, mixable, sound>>
Relist(p, becomes, list) == Locked /\ stage' = [stage EXCEPT ![p] = becomes]
                                   /\ mixable' = list
                                   /\ UNCHANGED <<sound, music>>

(* sound_sys_on_add appends whatever the array holds.  A second entry mixes *)
(* the component once more, which nothing here tells apart.                 *)
AddPlayer(p) == \/ /\ stage[p] \in {"new", "removed"}
                   /\ Relist(p, "added", mixable \cup {p})
                \/ stage[p] = "added" /\ Relist(p, "astray", mixable)

(* components:remove, pop and shift: the entity lets go of the component,   *)
(* and the system is not told.                                              *)
TakeFromEntity(p) == stage[p] = "added" /\ Relist(p, "astray", mixable)

(* Mutant: on_remove misses music components.                               *)
WrongUnlist(p) == /\ stage[p] \in {"added", "astray"}
                  /\ Relist(p, "removed", mixable \ ({p} \cap Sounds))

(* sound_sys_on_remove: the component leaves the array it is in.  Only the  *)
(* last of several entries is one that leaves here.                         *)
Unlist(p) == /\ stage[p] \in {"added", "astray"}
             /\ Relist(p, "removed", mixable \ {p})

(* The component's destroy, at the end of its frame or by the collector.  It *)
(* takes no lock.  An entity keeps its components until it has told the     *)
(* systems; one that is astray goes with another owner or with none.  What  *)
(* freed memory holds is of no matter.                                      *)
FreePlayer(p) == /\ soundMain = "script" /\ NothingRead
                 /\ \/ /\ stage[p] \in {"new", "removed"}
                       /\ stage' = [stage EXCEPT ![p] = "freed"]
                    \/ stage[p] = "astray" /\ stage' = [stage EXCEPT ![p] = "lost"]
                 /\ sound' = [s \in Sounds |-> IF s = p THEN NewSound ELSE sound[s]]
                 /\ music' = [m \in Musics |-> IF m = p THEN NewMusic ELSE music[m]]
                 /\ UNCHANGED <<soundLock, soundMain, audio, device, mixable>>

Cached(c) == IF c.asset = "cached" THEN Frames ELSE 0

(* play, pause, stop, seek and the setter of the name of a sound component. *)
ControlSound(s) ==
  /\ InUse(s)
  /\ LET c == sound[s] IN
     \/ \E b \in BOOLEAN : SetSound(s, [c EXCEPT !.playing = b])
     \/ SetSound(s, [c EXCEPT !.playing = FALSE, !.pos = 0])
     \/ \E f \in 0..Cached(c) : SetSound(s, [c EXCEPT !.pos = f])
     \/ \E a \in {"none", "named"} : SetSound(s, [c EXCEPT !.asset = a, !.pos = 0])

(* seek with an argument that is no number: luaL_checkinteger leaves the    *)
(* function, and the mutex stays locked.                                    *)
SeekNowhere(s) == /\ InUse(s) /\ soundMain = "script" /\ MainMayLock /\ NothingRead
                  /\ soundLock' = "main"
                  /\ UNCHANGED <<soundMain, audio, device, playback>>

Rewound(c) == [c EXCEPT !.playing = FALSE, !.current = 0, !.pos = 0,
                        !.pcm = NoTrack, !.cut = FALSE]

FirstOf(t, tracks) == CHOOSE k \in 1..Len(tracks) :
                        /\ tracks[k] = t
                        /\ \A l \in 1..(k - 1) : tracks[l] # t

(* Mutant: the tracks behind the removed one move up, the index does not.   *)
WrongTrackRemoved(c, t) ==
  LET i == FirstOf(t, c.tracks)
      kept == [c EXCEPT !.tracks = RemoveAt(@, i)] IN
  IF kept.tracks = <<>> THEN Rewound(kept)
  ELSE [kept EXCEPT !.cut = @ \/ (i = c.current + 1 /\ c.pcm # NoTrack)]

(* music:remove: the first track of that name goes; the index follows.      *)
TrackRemoved(c, t) ==
  LET i == FirstOf(t, c.tracks)
      kept == [c EXCEPT !.tracks = RemoveAt(@, i)] IN
  IF kept.tracks = <<>> THEN Rewound(kept)
  ELSE [kept EXCEPT !.current = IF i <= c.current + 1 /\ @ > 0 THEN @ - 1 ELSE @,
                    !.cut = @ \/ (i = c.current + 1 /\ c.pcm # NoTrack)]

(* music:add, remove, clear.                                                *)
EditTracks(m) ==
  /\ InUse(m)
  /\ LET c == music[m] IN
     \/ \E t \in Tracks : /\ Len(c.tracks) < MaxTracks
                          /\ SetMusic(m, [c EXCEPT !.tracks = Append(@, t)])
     \/ \E t \in Range(c.tracks) : SetMusic(m, TrackRemoved(c, t))
     \/ SetMusic(m, Rewound([c EXCEPT !.tracks = <<>>]))

(* play, pause, stop and seek of a music component.                         *)
ControlMusic(m) ==
  /\ InUse(m)
  /\ LET c == music[m] IN
     \/ \E b \in BOOLEAN : SetMusic(m, [c EXCEPT !.playing = b])
     \/ SetMusic(m, Rewound(c))
     \/ c.pcm # NoTrack /\ \E f \in 0..Frames : SetMusic(m, [c EXCEPT !.pos = f])

(* What main does without the mutex, step by step, while a callback may run. *)
MainGoes(from, to) == /\ soundMain = from /\ soundMain' = to /\ NothingRead
                      /\ UNCHANGED <<soundLock, audio, playback>>

(* asset_load_music, which may give the table of assets new buckets and     *)
(* free the old ones.                                                       *)
LoadBegins == MainGoes("script", "loading") /\ UNCHANGED device
LoadEnds   == MainGoes("loading", "script") /\ UNCHANGED device

(* engine_update: the EARLY phase pushes the update job and waits for it.   *)
EarlyBegins == MainGoes("script", "early") /\ UNCHANGED device
EarlyEnds   == MainGoes("updated", "script") /\ UNCHANGED device

(* Sound.select and the system's shutdown (when the entities are gone) look *)
(* at the device under the mutex and stop it outside.                       *)
StopBegins(goal) == /\ MainMayLock
                    /\ goal = "closing" => \A p \in Players : stage[p] # "added"
                    /\ MainGoes("script", goal) /\ UNCHANGED device

(* Mutant: shutdown does not wait for the callback.                         *)
WrongStopped == TRUE

(* ma_device_stop returns when no callback runs any more.                   *)
Stopped == audio.at = "idle"

(* ma_device_init and ma_device_start of the new device may fail.           *)
SelectEnds   == Stopped /\ MainGoes("stopping", "script") /\ device' \in BOOLEAN
ShutdownEnds == Stopped /\ MainGoes("closing", "over") /\ device' = FALSE
-----------------------------------------------------------------------------
(* The EARLY job, `sound_sys_update`.                                       *)

(* The asset manager has the sound or not; a cached one stays.              *)
Resolved(c, found) == IF c.asset = "named" /\ found THEN [c EXCEPT !.asset = "cached"] ELSE c

(* Reading a component: it is there, lost, or freed after it was unlisted.  *)
Touched(p) == CASE stage[p] = "lost"  -> {"stray"}
                [] stage[p] = "freed" -> {"component"}
                [] OTHER              -> {}

UpdateSounds == /\ soundMain = "early" /\ soundLock = "nobody" /\ Defined
                /\ soundMain' = "updated"
                /\ soundFault' = UNION {Touched(s) : s \in mixable \cap Sounds}
                /\ \E found \in SUBSET Sounds :
                     sound' = [s \in Sounds |-> IF s \in mixable
                                                THEN Resolved(sound[s], s \in found)
                                                ELSE sound[s]]
                /\ UNCHANGED <<soundLock, audio, device, stage, mixable, music>>
-----------------------------------------------------------------------------
(* The audio thread, `sound_sys_data_callback`.  Callbacks of one device    *)
(* follow each other; each mixes one sample frame, as the loop over the     *)
(* frames of a period carries no more than what it writes back.             *)

AudioStep(a) == /\ Defined /\ audio' = a
                /\ UNCHANGED <<soundMain, device, stage, mixable>>

AudioBegins == /\ device /\ audio.at = "idle"
               /\ soundMain \notin {"stopping", "closing"}
               /\ AudioStep([Idle EXCEPT !.at = "entered"])
               /\ UNCHANGED <<soundLock, sound, music, soundFault>>

(* What the early return leaves the mutex as.                               *)
AudioReturns == "nobody"

(* With no sound component the callback returns: nothing to mix.            *)
AudioLocks ==
  /\ audio.at = "entered" /\ soundLock = "nobody"
  /\ soundFault' = IF soundMain = "over" THEN {"system"} ELSE {}
  /\ IF mixable \cap Sounds = {}
       THEN AudioStep(Idle) /\ soundLock' = AudioReturns
       ELSE /\ AudioStep([audio EXCEPT !.at = "mixing", !.todo = mixable])
            /\ soundLock' = "audio"
  /\ UNCHANGED <<sound, music>>

Mixed(p) == [audio EXCEPT !.at = "mixing", !.todo = @ \ {p}, !.seeks = {},
                          !.advancing = FALSE]

(* Reading the component, and one frame of samples at pos.                  *)
Reading(p, pos) == Touched(p) \cup (IF pos >= Frames THEN {"samples"} ELSE {})

Forward(pos) == IF pos < Frames THEN pos + 1 ELSE pos

(* Mutant: the end of the samples is one frame late.                        *)
WrongAtEnd(c) == c.pos > Frames

AtEnd(c) == c.pos >= Frames

(* A sound is skipped (its name is not resolved, it does not play, it or    *)
(* its entity is inactive), plays a frame, ends, or starts over.            *)
MixSound(s) ==
  /\ audio.at = "mixing" /\ s \in audio.todo
  /\ AudioStep(Mixed(s))
  /\ LET c == sound[s]
         mixes(d, pos) == sound' = [sound EXCEPT ![s] = d] /\ soundFault' = Reading(s, pos) IN
     \/ mixes(c, 0)
     \/ /\ c.playing /\ c.asset = "cached"
        /\ \/ ~AtEnd(c) /\ mixes([c EXCEPT !.pos = Forward(@)], c.pos)
           \/ AtEnd(c) /\ mixes([c EXCEPT !.playing = FALSE, !.pos = 0], 0)
           \/ AtEnd(c) /\ mixes([c EXCEPT !.pos = 1], 0)
  /\ UNCHANGED <<soundLock, music>>

(* A current_track past the end starts over.                                *)
Clamped(c) == IF c.current < Len(c.tracks) THEN c
              ELSE [c EXCEPT !.current = 0, !.pos = 0, !.pcm = NoTrack, !.cut = FALSE]

(* The next track, or the first one when the playlist repeats.              *)
HasNext(c, repeats) == c.current + 1 < Len(c.tracks) \/ repeats

Advanced(c) == [c EXCEPT !.current = IF @ + 1 < Len(c.tracks) THEN @ + 1 ELSE 0,
                         !.pos = 0, !.pcm = NoTrack, !.cut = FALSE]

(* A music component: skipped, about to look its track up, or mixed, which  *)
(* may end the track and the playlist.                                      *)
MixMusic(m) ==
  /\ audio.at = "mixing" /\ m \in audio.todo
  /\ LET c == Clamped(music[m])
         look(d, next) == /\ music' = [music EXCEPT ![m] = d]
                          /\ AudioStep([audio EXCEPT !.at = "lookup", !.seeks = {m},
                                                  !.advancing = next])
                          /\ soundFault' = Reading(m, 0)
         mixes(d, pos) == /\ music' = [music EXCEPT ![m] = d]
                          /\ AudioStep(Mixed(m))
                          /\ soundFault' = Reading(m, pos) IN
     \/ mixes(music[m], 0)
     \/ /\ music[m].playing /\ music[m].tracks # <<>>
        /\ \/ c.pcm = NoTrack /\ look(c, FALSE)
           \/ c.pcm # NoTrack /\ ~AtEnd(c) /\ mixes([c EXCEPT !.pos = Forward(@)], c.pos)
           \/ /\ c.pcm # NoTrack /\ AtEnd(c)
              /\ \E repeats \in BOOLEAN :
                   IF HasNext(c, repeats) THEN look(Advanced(c), TRUE)
                   ELSE mixes([c EXCEPT !.playing = FALSE, !.pos = 0, !.pcm = NoTrack,
                                        !.cut = FALSE], 0)
  /\ UNCHANGED <<soundLock, sound>>

(* engine_get_music answers: the track, or none.  Nothing guards the table  *)
(* of assets, which main may be changing (soundMain = "loading").           *)
LookupEnds(m) ==
  /\ audio.at = "lookup" /\ m \in audio.seeks
  /\ soundFault' = Touched(m)
  /\ LET c == music[m] IN
     \/ /\ stage[m] # "lost"
        /\ music' = [music EXCEPT ![m].pcm = c.tracks[c.current + 1]]
        /\ AudioStep([audio EXCEPT !.at = "mixing", !.seeks = {}, !.advancing = FALSE])
     \/ /\ music' = [music EXCEPT ![m].playing = @ /\ ~audio.advancing]
        /\ AudioStep(Mixed(m))
  /\ UNCHANGED <<soundLock, sound>>

AudioEnds == /\ audio.at = "mixing" /\ audio.todo = {}
             /\ AudioStep(Idle) /\ soundLock' = "nobody"
             /\ UNCHANGED <<sound, music, soundFault>>
-----------------------------------------------------------------------------
SoundScript == \/ \E p \in Players : \/ AddPlayer(p) \/ TakeFromEntity(p)
                                      \/ Unlist(p) \/ FreePlayer(p)
               \/ \E s \in Sounds : ControlSound(s) \/ SeekNowhere(s)
               \/ \E m \in Musics : EditTracks(m) \/ ControlMusic(m)
               \/ LoadBegins \/ EarlyBegins
               \/ \E goal \in {"stopping", "closing"} : StopBegins(goal)

SoundMainWaits == LoadEnds \/ EarlyEnds \/ SelectEnds \/ ShutdownEnds

AudioWorks == \/ \E s \in Sounds : MixSound(s)
              \/ \E m \in Musics : MixMusic(m) \/ LookupEnds(m)
              \/ AudioEnds

SoundNext == SoundScript \/ SoundMainWaits \/ UpdateSounds
             \/ AudioBegins \/ AudioLocks \/ AudioWorks

(* A thread that runs gets on, and a main thread that waits is woken.  The  *)
(* callback finds the mutex free, unless it was leaked; the update, for     *)
(* which callbacks hold it again and again, gets it in the end.             *)
SoundFairness == /\ WF_soundVars(AudioLocks \/ AudioWorks)
                 /\ WF_soundVars(SoundMainWaits)
                 /\ SF_soundVars(UpdateSounds)

SoundSpec == SoundInit /\ [][SoundNext]_soundVars /\ SoundFairness
-----------------------------------------------------------------------------
(* The callback and the update read no component that main has freed, no    *)
(* sample behind the end of an asset - scripts may seek to its very end -   *)
(* and no system that is shut down, although main frees components without  *)
(* the mutex.  The one exception is a component that went astray: nobody    *)
(* takes it out of the arrays before it is freed.                           *)
SoundReadsLive == soundFault \subseteq {"stray"}

(* The samples that play are those of the current track, over removals,     *)
(* ends of tracks and restarts; only a track that is removed while it plays *)
(* is played to its end.                                                    *)
PlaysCurrentTrack ==
  \A m \in Musics : LET c == music[m] IN
     c.pcm # NoTrack /\ ~c.cut =>
        /\ c.tracks # <<>>
        /\ Clamped(c) = c => c.tracks[c.current + 1] = c.pcm

(* The mutex never keeps the frame or the choice of a device waiting for    *)
(* ever, except after a seek that failed in the middle and after the read   *)
(* of a stray component, from which on nothing is defined.                  *)
SoundFrameEnds == (soundMain \in {"early", "stopping", "closing"})
                    ~> (soundMain \in {"script", "over"} \/ soundLock = "main"
                         \/ soundFault = {"stray"})
=============================================================================
