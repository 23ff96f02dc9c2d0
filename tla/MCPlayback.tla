----------------------------- MODULE MCPlayback -----------------------------
(* A small instance of Playback: half a sample more than two to the beat,  *)
(* so that beats and notes round; notes that overlap the next repetition   *)
(* of their pattern, end on the last sample of a clip or are shorter than  *)
(* one; a loop shorter than the quantum, and one given backwards.          *)
EXTENDS Playback

CONSTANTS t1, t2

MCTempos == {<<5, 2>>, <<2, 1>>}
MCNotePool == {<<1, 0, 3>>, <<2, 6, 10>>, <<3, 1, 2>>}
Clip(id, tr, start, duration) ==
  [id |-> id, track |-> tr, start |-> start, duration |-> duration]
MCProjects ==
  {[clips |-> <<Clip(1, t1, 0, 12), Clip(2, t2, 2, 12)>>,
    notes |-> {<<1, 0, 3>>, <<2, 6, 10>>}, muted |-> {}, solo |-> {},
    bpm |-> <<5, 2>>, next_clip_id |-> 3]}
MCClipStarts == {4}
MCClipDurations == {8}
MCLoopRanges == {<<0, 12>>, <<4, 7>>, <<8, 6>>}
MCSeekTargets == {5, 16}
MCFrames == {3}
=============================================================================
