---------------------------- MODULE Audition -----------------------------
(***************************************************************************)
(* Live audition: the keys a user presses in the piano roll, which         *)
(* AudioEngine hands to the realtime (RT) thread through two counters and  *)
(* two values, and the voices that AudioEngine::process starts, releases   *)
(* and loses for them, beside the voices of the song.                      *)
(*                                                                         *)
(* Each access to an atomic that both threads use is a step.  The song is  *)
(* an environment: a playing quantum may bring one note of it at frame 0.  *)
(* A published plan has fresh DSP state, so the first quantum that renders *)
(* it starts silent, and an event flush resets that state; both are seen   *)
(* here as "the next quantum starts with all voices idle".  Some plan is   *)
(* always installed: without one a quantum returns before it looks at the  *)
(* audition.                                                               *)
(***************************************************************************)
EXTENDS PolySynth

CONSTANTS
  Presses,              \* pairs <<pitch, velocity>> a key may ask for
  MaxCalls,             \* bound: audition_note_on calls, and note_off calls
  MaxSong,              \* bound: NoteOn events of the song
  MaxResets             \* bound: plans published and flushes requested

ASSUME SoundsAssumption ==
  /\ Presses \subseteq (Nat \ {0}) \X (Nat \ {0})
  /\ Presses # {}
ASSUME BoundsAssumption == MaxCalls \in Nat /\ MaxSong \in Nat /\ MaxResets \in Nat

Pitches == {press[1] : press \in Presses}
Velocities == {press[2] : press \in Presses}

kAuditionNoteId == "audition"
SongNoteId == "song"

VARIABLES
  audition_pitch, audition_velocity,          \* atomics of the control thread
  audition_trigger, audition_release,
  playing,                                    \* TransportController::playing_
  reset_pending,                              \* a plan or a flush awaits RT
  ctl, call,                                  \* the control thread
  rt, snap_playing, aud_trig, aud_rel, pitch, vel,  \* locals of a quantum
  last_audition_trigger, last_audition_release, audition_active,
  voices,
  songs, resets,                              \* how much of the bounds is used
  clicked                                     \* history: see RtLoadRelease

shared == <<audition_pitch, audition_velocity, audition_trigger,
            audition_release, playing, reset_pending>>
ctlvars == <<ctl, call, resets>>
quantum == <<snap_playing, aud_trig, aud_rel, pitch, vel>>
engine == <<last_audition_trigger, last_audition_release, audition_active,
            voices, songs, clicked>>
vars == <<shared, ctlvars, rt, quantum, engine>>

NoPitch == 0
NoVelocity == 0

Init ==
  /\ audition_pitch = Min(Pitches)            \* the defaults, which no press
  /\ audition_velocity = Min(Velocities)      \* leaves to be read
  /\ audition_trigger = 0
  /\ audition_release = 0
  /\ playing = FALSE
  /\ reset_pending = FALSE
  /\ ctl = "idle"
  /\ call = <<NoPitch, NoVelocity>>
  /\ resets = 0
  /\ rt = "idle"
  /\ snap_playing = FALSE
  /\ aud_trig = 0
  /\ aud_rel = 0
  /\ pitch = NoPitch
  /\ vel = NoVelocity
  /\ last_audition_trigger = 0
  /\ last_audition_release = 0
  /\ audition_active = FALSE
  /\ voices = AllIdle
  /\ songs = 0
  /\ clicked = FALSE

-----------------------------------------------------------------------------
(* The control thread *)

NoteOnPitch(press) ==                         \* audition_note_on()
  /\ ctl = "idle"
  /\ audition_trigger < MaxCalls
  /\ call' = press
  /\ audition_pitch' = press[1]
  /\ ctl' = "pitch_stored"
  /\ UNCHANGED <<audition_velocity, audition_trigger, audition_release, playing,
                 reset_pending, resets, rt, quantum, engine>>

NoteOnVelocity ==
  /\ ctl = "pitch_stored"
  /\ audition_velocity' = call[2]
  /\ ctl' = "velocity_stored"
  /\ UNCHANGED <<audition_pitch, audition_trigger, audition_release, playing,
                 reset_pending, call, resets, rt, quantum, engine>>

NoteOnTrigger ==
  /\ ctl = "velocity_stored"
  /\ audition_trigger' = audition_trigger + 1
  /\ ctl' = "idle"
  /\ UNCHANGED <<audition_pitch, audition_velocity, audition_release, playing,
                 reset_pending, call, resets, rt, quantum, engine>>

NoteOffRelease ==                             \* audition_note_off()
  /\ ctl = "idle"
  /\ audition_release < MaxCalls
  /\ audition_release' = audition_release + 1
  /\ call' = <<NoPitch, NoVelocity>>
  /\ UNCHANGED <<audition_pitch, audition_velocity, audition_trigger, playing,
                 reset_pending, ctl, resets, rt, quantum, engine>>

SetPlaying(p) ==                              \* play(), stop()
  /\ ctl = "idle"
  /\ playing # p
  /\ playing' = p
  /\ UNCHANGED <<audition_pitch, audition_velocity, audition_trigger,
                 audition_release, reset_pending, ctlvars, rt, quantum, engine>>

RequestReset ==                               \* publish_plan(), a flush
  /\ ctl = "idle"
  /\ resets < MaxResets
  /\ resets' = resets + 1
  /\ reset_pending' = TRUE
  /\ UNCHANGED <<audition_pitch, audition_velocity, audition_trigger,
                 audition_release, playing, ctl, call, rt, quantum, engine>>

-----------------------------------------------------------------------------
(* The realtime thread: one quantum of process() *)

RtBegin ==                                    \* snapshot, plan, flush
  /\ rt = "idle"
  /\ snap_playing' = playing
  /\ voices' = IF reset_pending THEN AllIdle ELSE voices
  /\ reset_pending' = FALSE
  /\ rt' = "started"
  /\ UNCHANGED <<audition_pitch, audition_velocity, audition_trigger,
                 audition_release, playing, ctlvars, aud_trig, aud_rel, pitch,
                 vel, last_audition_trigger, last_audition_release,
                 audition_active, songs, clicked>>

RtLoadTrigger ==
  /\ rt = "started"
  /\ aud_trig' = audition_trigger
  /\ rt' = "trigger_loaded"
  /\ UNCHANGED <<shared, ctlvars, snap_playing, aud_rel, pitch, vel, engine>>

Triggered == aud_trig # last_audition_trigger
Released == aud_rel # last_audition_release

\* `clicked` records that a release was seen while a press was still to be
\* handled: one in the same quantum or, because the trigger is loaded first,
\* one for the next; until a release is seen without such company, and sent.
\* The release may be the pressed key's own or that of the key before: the counters
\* do not tell, and either way the engine forgets that the new key sounds.
RtLoadRelease ==
  /\ rt = "trigger_loaded"
  /\ aud_rel' = audition_release
  /\ clicked' = IF audition_release # last_audition_release
                THEN \/ audition_trigger # last_audition_trigger
                     \/ clicked /\ ~audition_active
                ELSE clicked
  /\ rt' = IF Triggered THEN "counters_loaded" ELSE "rendering"
  /\ UNCHANGED <<shared, ctlvars, snap_playing, aud_trig, pitch, vel,
                 last_audition_trigger, last_audition_release, audition_active,
                 voices, songs>>

RtLoadPitch ==
  /\ rt = "counters_loaded"
  /\ pitch' = audition_pitch
  /\ rt' = "pitch_loaded"
  /\ UNCHANGED <<shared, ctlvars, snap_playing, aud_trig, aud_rel, vel, engine>>

RtLoadVelocity ==
  /\ rt = "pitch_loaded"
  /\ vel' = audition_velocity
  /\ rt' = "rendering"
  /\ UNCHANGED <<shared, ctlvars, snap_playing, aud_trig, aud_rel, pitch, engine>>

\* A faulty variant: releases that came together are taken for none.
SendOffSingle ==
  aud_rel = last_audition_release + 1 /\ (audition_active \/ Triggered)

\* The audition NoteOff is only sent for a note believed to sound.
SendOff == Released /\ (audition_active \/ Triggered)

\* The events of the block: those of the keys are at frame 0, where sort() puts
\* NoteOff before NoteOn and orders NoteOns by id.  The song's may come later or
\* have a larger id (they are hashed), so its NoteOn comes before or after the key's.
Applied(vs, song, key_first) ==
  LET v1 == IF song = "off" THEN NoteOff(vs, SongNoteId) ELSE vs
      v2 == IF SendOff THEN NoteOff(v1, kAuditionNoteId) ELSE v1
      pressed(v) == IF Triggered THEN NoteOn(v, kAuditionNoteId, <<pitch, vel>>) ELSE v
      sung(v) == IF song = "on" THEN NoteOn(v, SongNoteId, NoSound) ELSE v
  IN  IF key_first THEN sung(pressed(v2)) ELSE pressed(sung(v2))

\* A faulty variant: nothing is released while a key is down.
StoppedUnlessKey(vs) ==
  IF snap_playing \/ audition_active THEN vs ELSE ReleaseAllBut(vs, kAuditionNoteId)

\* What the stop path does to the voices before the block is rendered.
Stopped(vs) == IF snap_playing THEN vs ELSE ReleaseAllBut(vs, kAuditionNoteId)

\* `song` is what the timeline has for this quantum, `trigger` the press that
\* the quantum marks as handled.
RenderMarking(song, trigger) ==
  /\ rt = "rendering"
  /\ song # "none" => snap_playing
  /\ song = "on" => songs < MaxSong
  /\ songs' = IF song = "on" THEN songs + 1 ELSE songs
  /\ \E v \in {Stopped(voices)}, key_first \in BOOLEAN :
       \E w \in {Applied(v, song, key_first)} : voices' = RenderVoices(w)
  /\ last_audition_trigger' = trigger
  /\ last_audition_release' = aud_rel
  /\ audition_active' = ((audition_active \/ Triggered) /\ ~Released)
  /\ rt' = "idle"
  /\ snap_playing' = FALSE                    \* the locals go out of scope
  /\ pitch' = NoPitch
  /\ vel' = NoVelocity
  /\ UNCHANGED <<shared, ctlvars, aud_trig, aud_rel, clicked>>

\* A faulty variant: the counter is loaded a second time.
RtRenderReloading(song) == RenderMarking(song, audition_trigger)

RtRender(song) == RenderMarking(song, aud_trig)

-----------------------------------------------------------------------------

Control ==
  \/ \E press \in Presses : NoteOnPitch(press)
  \/ NoteOnVelocity
  \/ NoteOnTrigger
  \/ NoteOffRelease
  \/ \E p \in BOOLEAN : SetPlaying(p)
  \/ RequestReset

Realtime ==
  \/ RtBegin
  \/ RtLoadTrigger
  \/ RtLoadRelease
  \/ RtLoadPitch
  \/ RtLoadVelocity
  \/ \E song \in {"none", "on", "off"} : RtRender(song)

Next == Control \/ Realtime

Spec == Init /\ [][Next]_vars

\* The audio host keeps asking for quanta, and no step of one blocks.
FairSpec == Spec /\ WF_vars(Realtime)

-----------------------------------------------------------------------------
(* Properties *)

Auditioned == {v \in Held(voices) : voices[v].note_id = kAuditionNoteId}

\* Between quanta, a key that sounds is a key the engine knows it has to
\* release, whatever voices were stolen and whatever plans were swapped in.
\* Only a press and a release that one quantum sees together, also the release of
\* the key before, break it.
HeldAuditionIsKnown ==
  rt = "idle" /\ ~clicked /\ Auditioned # {} => audition_active

\* Once the trigger of the last call has been taken, the youngest voice of
\* the audition has the pitch and the velocity of that call: no half-written
\* pair is left sounding, though a torn one may have sounded before.
LatestCallSounds ==
  rt = "idle" /\ ctl = "idle" /\ audition_trigger = last_audition_trigger
    => \A v \in Auditioned :
         (\A u \in Auditioned : voices[u].age <= voices[v].age)
           => voices[v].sound = <<audition_pitch, audition_velocity>>

\* A stopped transport silences the song, also the voices that outlive a press
\* of a key and those a steal moved; keys still sound.
StopSilencesSong ==
  ~playing ~> (playing \/ \A v \in Active(voices) : voices[v].note_id # SongNoteId)

KeyUp == ctl = "idle" /\ call = <<NoPitch, NoVelocity>>
AuditionSilent == \A v \in Active(voices) : voices[v].note_id # kAuditionNoteId

\* A key that is up falls silent, unless a quantum saw its press together with a
\* release (`clicked`): its own, or that of the key before.
ReleaseSilencesUnlessClicked ==
  (KeyUp /\ ~clicked) ~> (~KeyUp \/ clicked \/ AuditionSilent)
=============================================================================
