---------------------------- MODULE PolySynth ----------------------------
(***************************************************************************)
(* The voices of the polyphonic synth of a RenderPlan: which voice a       *)
(* NoteOn takes, which voices a NoteOff releases, and how the envelopes    *)
(* move through one quantum.  The oscillator, the filter and the pan of a  *)
(* voice are left out: no decision of the synth depends on them.           *)
(*                                                                         *)
(* The envelope level is counted in quanta: Levels quanta of attack reach  *)
(* the sustain, as many of release reach silence.  `active` is not kept:   *)
(* outside render_interval() it is FALSE exactly in the stage Idle.        *)
(***************************************************************************)
EXTENDS Integers, FiniteSetsExt

CONSTANTS
  VoiceCount,   \* voices of the pool (kVoiceCount = 16)
  Levels        \* quanta that an attack, and a release, take

ASSUME VoiceAssumption == VoiceCount \in Nat \ {0}
ASSUME LevelsAssumption == Levels \in Nat \ {0}

VoiceIndex == 1 .. VoiceCount
Stage == {"Idle", "Attack", "Sustain", "Release"}   \* Sustain has Decay in it

NoNote == "none"                \* what an idle voice plays,
NoSound == <<0, 0>>             \* and the pitch and velocity it plays it with
Idle == [stage |-> "Idle", level |-> 0, age |-> 0, note_id |-> NoNote,
         sound |-> NoSound]
AllIdle == [v \in VoiceIndex |-> Idle]      \* PolySynthState::reset()

Active(voices) == {v \in VoiceIndex : voices[v].stage # "Idle"}
Held(voices) == {v \in VoiceIndex : voices[v].stage \in {"Attack", "Sustain"}}
Releasing(voices) == {v \in VoiceIndex : voices[v].stage = "Release"}

\* A free voice, else the quietest releasing one, else the oldest.
Chosen(voices) ==
  LET free == VoiceIndex \ Active(voices)
      quietest == {v \in Releasing(voices) :
                     \A u \in Releasing(voices) : voices[v].level <= voices[u].level}
      oldest == {v \in VoiceIndex :
                   \A u \in VoiceIndex : voices[v].age <= voices[u].age}
  IN  CASE free # {} -> Min(free)
        [] free = {} /\ quietest # {} -> Min(quietest)
        [] OTHER -> Min(oldest)

\* The age a NoteOn gives: the largest so far and one more (next_voice_age).
NextAge(voices) == 1 + Max({voices[v].age : v \in VoiceIndex})

NoteOn(voices, id, sound) ==
  [voices EXCEPT ![Chosen(voices)] =
     [stage |-> "Attack", level |-> 0, age |-> NextAge(voices), note_id |-> id,
      sound |-> sound]]

\* A faulty variant: only the first voice of the note is released.
NoteOffFirst(voices, id) ==
  LET mine == {v \in Active(voices) : voices[v].note_id = id}
  IN  IF mine = {} THEN voices
      ELSE [voices EXCEPT ![Min(mine)].stage = "Release"]

NoteOff(voices, id) ==
  [v \in VoiceIndex |->
     IF v \in Active(voices) /\ voices[v].note_id = id
     THEN [voices[v] EXCEPT !.stage = "Release"]
     ELSE voices[v]]

\* The stop path of process(): what sounds and is not `id` enters release.
ReleaseAllBut(voices, id) ==
  [v \in VoiceIndex |->
     IF v \in Held(voices) /\ voices[v].note_id # id
     THEN [voices[v] EXCEPT !.stage = "Release"]
     ELSE voices[v]]

\* One quantum of one envelope.
Advance(voice) ==
  CASE voice.stage = "Attack" /\ voice.level + 1 < Levels
         -> [voice EXCEPT !.level = @ + 1]
    [] \/ voice.stage = "Sustain"
       \/ voice.stage = "Attack" /\ voice.level + 1 >= Levels
         -> [voice EXCEPT !.level = Levels, !.stage = "Sustain"]
    [] voice.stage = "Release" /\ voice.level > 1
         -> [voice EXCEPT !.level = @ - 1]
    [] OTHER -> Idle

RenderVoices(voices) == [v \in VoiceIndex |-> Advance(voices[v])]
=============================================================================
