------------------------------ MODULE Playback ------------------------------
(***************************************************************************)
(* From the arrangement to sounding notes: the editor compiles the clips   *)
(* of the project into one stream of note events, a quantum plays the      *)
(* events its samples pass over, in one segment or around the loop in two, *)
(* and the metronome clicks on the beats.                                  *)
(*                                                                         *)
(* A quantum and a call of the editor are one step each: what happens when *)
(* they overlap is the subject of Transport and TrackBuffers.  The stages  *)
(* and levels of a voice are those of PolySynth; here it has a note that   *)
(* sustains, or none.  The keys of live audition, which take their voices  *)
(* from the same pool, are left to Audition.  Musical time is counted in   *)
(* ticks, played time in samples; every clip shows the one pattern of the  *)
(* model, and a note is <<id, start, end>> in ticks of that pattern.       *)
(***************************************************************************)
EXTENDS Integers, Sequences, SequencesExt, FiniteSetsExt

CONSTANTS
  TicksPerBeat,    \* kTicksPerBeat
  Tempos,          \* pairs <<n, d>>: n/d samples last one beat
  PatternLength,   \* ticks
  NotePool,        \* the notes that can be drawn
  Tracks,
  Projects,        \* projects that can be opened, the first one among them
  ClipStarts, ClipDurations,      \* where clips are dragged to, in ticks
  LoopRanges,      \* pairs <<start, end>> in ticks
  SeekTargets,     \* ticks
  Frames,          \* quantum sizes
  Capacity,        \* events the block of a quantum holds
  TrackCapacity,   \* events the engine holds, kMaxEvents
  VoiceCount,      \* kVoiceCount
  Word,            \* what a frame offset wraps at (uint32_t)
  MaxEdits,        \* bound: edits of project, tempo, loop and patch
  MaxClipId,       \* bound: the clips ever created
  MaxPos           \* bound: the last sample that is played

ASSUME TimeAssumption ==
  /\ TicksPerBeat \in Nat \ {0, 1} /\ PatternLength \in Nat \ {0}
  /\ Tempos \subseteq (Nat \ {0}) \X (Nat \ {0})
  /\ \A t \in Tempos : t[1] >= t[2]      \* a sample or more to the beat
ASSUME WordAssumption == MaxPos \in Nat /\ Word \in Nat /\ Word > 4 * MaxPos
ASSUME FramesAssumption == Frames \subseteq 1 .. Word - 1
ASSUME CapacityAssumption ==
  {Capacity, TrackCapacity, VoiceCount} \subseteq Nat \ {0}

ClipType == [id : Nat, track : Tracks, start : Nat, duration : Nat]
NoteType == Nat \X Nat \X Nat
ProjectType ==
  [clips : Seq(ClipType), notes : SUBSET NoteType, muted : SUBSET Tracks,
   solo : SUBSET Tracks, bpm : Tempos, next_clip_id : Nat]

ASSUME ProjectsAssumption ==
  /\ Projects \subseteq ProjectType /\ NotePool \subseteq NoteType
  /\ ClipStarts \subseteq Nat /\ ClipDurations \subseteq Nat
  /\ LoopRanges \subseteq Int \X Int /\ SeekTargets \subseteq Nat

\* No id is given twice: add_clip() and add_note() refuse one that is in use,
\* and a new one is above all others.
ClipsApart(p) ==
  /\ \A k \in DOMAIN p.clips : p.clips[k].id \in 1 .. p.next_clip_id - 1
  /\ \A j, k \in DOMAIN p.clips : p.clips[j].id = p.clips[k].id => j = k
NotesApart(notes) == \A m, n \in notes : m[1] = n[1] => m = n
ASSUME IdsAssumption ==
  \A p \in Projects : ClipsApart(p) /\ NotesApart(p.notes \union NotePool)

VARIABLES
  project,       \* clips in the order of project_.clips(), notes, muted, solo,
                 \* bpm (the tempo map's as well) and next_clip_id
  deleted,       \* clips that undo can bring back
  loop,          \* enabled, start and end in ticks
  track,         \* the compiled events, the active buffer of the engine
  playing, position, current_beat,
  voices,        \* the notes that sustain in the synth, a voice each, in the
                 \* order in which their voices were taken; NoNote in between
                 \* is a voice that is free or releases its note
  metronome,     \* enabled, and the last beat that was clicked
  edits,         \* bound
  \* history
  sounding,      \* instances of notes that should sound
  spoiled        \* no longer as written: see SoundsAsWritten

document == <<project, deleted, loop, track>>
history == <<sounding, spoiled>>
vars == <<document, playing, position, current_beat, voices, metronome, edits,
          history>>

-----------------------------------------------------------------------------
(* TempoMap *)

Rounded(a, b) == (2 * a + b) \div (2 * b)         \* llround(a / b)

Sample(t, ticks) == Rounded(ticks * t[1], TicksPerBeat * t[2])
Ticks(t, sample) == Rounded(sample * TicksPerBeat * t[2], t[1])

tempo == project.bpm
LoopStart == Sample(tempo, loop.start)
LoopEnd == Sample(tempo, loop.end)
LoopActive == loop.enabled /\ LoopEnd > LoopStart

-----------------------------------------------------------------------------
(* compile_project_events() and PatternCompiler::compile() *)

ClipEnd(c) == c.start + c.duration
Repeats(c) == 0 .. (c.duration - 1) \div PatternLength
Audible(p) == {c \in Range(p.clips) :
                 /\ c.track \notin p.muted
                 /\ p.solo # {} => c.track \in p.solo}

\* A note of a clip, in one repetition of the pattern.
Instances(p) == UNION {{c} \X Repeats(c) \X p.notes : c \in Audible(p)}

NoteStart(i) == i[1].start + i[2] * PatternLength + i[3][2]
NoteEnd(i) == i[1].start + i[2] * PatternLength + i[3][3]
OnSample(t, i) == Sample(t, NoteStart(i))
OffSample(t, i) == Sample(t, NoteEnd(i))

\* The first repetition in the first clip, canonical_instance.
Canonical(p, i) == i[1].id = Head(p.clips).id /\ i[2] = 0

\* A canonical instance keeps the note's id, the others mix clip and repetition in.
NoteId(p, i) ==
  IF Canonical(p, i) THEN <<0, 0, i[3][1]>> ELSE <<i[1].id, i[2], i[3][1]>>

\* A faulty variant: the events of a note that go on behind its clip are kept.
CompiledUncut(p) ==
  UNION {{[at |-> OnSample(p.bpm, i), kind |-> "NoteOn", id |-> NoteId(p, i)],
          [at |-> OffSample(p.bpm, i), kind |-> "NoteOff", id |-> NoteId(p, i)]} :
           i \in Instances(p)}

Compiled(p) ==
  UNION {{e \in {[at |-> OnSample(p.bpm, i), kind |-> "NoteOn", id |-> NoteId(p, i)],
                 [at |-> OffSample(p.bpm, i), kind |-> "NoteOff", id |-> NoteId(p, i)]} :
            e.at < Sample(p.bpm, ClipEnd(i[1]))} : i \in Instances(p)}

\* operator<, but for the order of the ids, which are hashed: events that differ
\* in nothing else may come in either order.
Before(e, f) ==
  \/ e.at < f.at
  \/ e.at = f.at /\ e.kind = "NoteOff" /\ f.kind = "NoteOn"

\* The first n events, which is what a full buffer keeps.
Keeps(events, n) ==
  IF Cardinality(events) > n
  THEN LET first == {e \in events : Cardinality({f \in events : ~Before(e, f)}) <= n}
           tied == {e \in events \ first :
                      Cardinality({f \in events : Before(f, e)}) < n}
       IN  {first \union some : some \in kSubset(n - Cardinality(first), tied)}
  ELSE {events}

\* What the engine is given, of which set_track_events() takes as much as it holds.
Tracked(p) == Keeps(Compiled(p), TrackCapacity)

-----------------------------------------------------------------------------
(* PolySynth: the events of a block in their order *)

NoNote == <<>>
AllFree == [v \in 1 .. VoiceCount |-> NoNote]

\* A NoteOn takes a voice that sustains no note, or else the oldest.
Taken(vs) == Min({v \in DOMAIN vs : vs[v] = NoNote} \union
                   IF NoNote \in Range(vs) THEN {} ELSE {1})

Apply(e, vs) ==
  IF e.kind = "NoteOn" THEN Append(RemoveAt(vs, Taken(vs)), e.id)
  ELSE [v \in DOMAIN vs |-> IF vs[v] = e.id THEN NoNote ELSE vs[v]]

\* The orders sort() can leave the events of a block in.
Orders(block) ==
  {order \in SeqOf(block, Capacity) :
     /\ Range(order) = block
     /\ \A j, k \in DOMAIN order :
          j < k => order[j] # order[k] /\ ~Before(order[k], order[j])}

\* The voices before the first and after each event.
Played(order) ==
  LET after[k \in 0 .. Len(order)] ==
        IF k = 0 THEN voices ELSE Apply(order[k], after[k - 1])
  IN  after

\* A NoteOn takes the voice of a note that sustains.
Steals(order) ==
  \E k \in DOMAIN order :
     order[k].kind = "NoteOn" /\ NoNote \notin Range(Played(order)[k - 1])

-----------------------------------------------------------------------------
(* What should sound: written in the project, not in the compiled events *)

\* A sounding note will be released: the playhead still comes to its end,
\* within its clip and, in the loop, before the loop's end.
EndsAhead(t, l, pos, i) ==
  LET end == Sample(t, l.end)
      looped == l.enabled /\ end > Sample(t, l.start)
  IN  /\ pos <= OffSample(t, i)
      /\ OnSample(t, i) < OffSample(t, i)
      /\ OffSample(t, i) < Sample(t, ClipEnd(i[1]))
      /\ looped => pos < end /\ OffSample(t, i) < end

Remember(expected, bad) ==
  /\ spoiled' = bad
  /\ sounding' = IF bad THEN {} ELSE expected

\* After an edit or a seek: every sounding note is still there, canonical or
\* not as before, and ends ahead.
Intervene(p, l, pos) ==
  LET instances == Instances(p) IN
  Remember(sounding, spoiled \/ \E i \in sounding :
                       ~ /\ i \in instances
                         /\ Canonical(p, i) = Canonical(project, i)
                         /\ EndsAhead(p.bpm, l, pos, i))

Silence == Remember({}, FALSE)

-----------------------------------------------------------------------------
(* EditorController: every edit compiles the project anew *)

\* A faulty variant: the events are not compiled for the new project.
SyncLate(p) ==
  /\ p # project
  /\ project' = p
  /\ track' \in Tracked(project)
  /\ Intervene(p, loop, position)
  /\ UNCHANGED <<loop, playing, position, current_beat, voices, metronome>>

\* The project changes and syncPatternToEngine() compiles it.  (Setting what is
\* set already compiles the same events again.)
Sync(p) ==
  /\ p # project
  /\ project' = p
  /\ track' \in Tracked(p)
  /\ Intervene(p, loop, position)
  /\ UNCHANGED <<loop, playing, position, current_beat, voices, metronome>>

Drawn(n) == [project EXCEPT !.notes = IF n \in @ THEN @ \ {n} ELSE @ \union {n}]

\* Also setBpm(), which keeps the loop at its beats, and the tempo of a project.
EditProject ==
  /\ \/ \E n \in NotePool : Sync(Drawn(n))
     \/ \E tr \in Tracks :                       \* setTrackMute, setTrackSolo
          \/ Sync([project EXCEPT !.muted = SymDiff(@, {tr})])
          \/ Sync([project EXCEPT !.solo = SymDiff(@, {tr})])
     \/ \E t \in Tempos : Sync([project EXCEPT !.bpm = t])
  /\ UNCHANGED deleted

MoveClip(k, start, tr) ==
  /\ Sync([project EXCEPT !.clips[k] = [@ EXCEPT !.start = start, !.track = tr]])
  /\ UNCHANGED deleted

ResizeClip(k, duration) ==
  /\ Sync([project EXCEPT !.clips[k].duration = duration])
  /\ UNCHANGED deleted

DuplicateClip(k) ==
  LET source == project.clips[k]
      id == project.next_clip_id
      copy == [source EXCEPT !.id = id, !.start = ClipEnd(source)]
  IN  /\ id <= MaxClipId
      /\ Sync([project EXCEPT !.clips = Append(@, copy), !.next_clip_id = id + 1])
      /\ UNCHANGED deleted

DeleteClip(k) ==
  /\ Sync([project EXCEPT !.clips = RemoveAt(@, k)])
  /\ deleted' = deleted \union {project.clips[k]}

\* arrangementUndo() of a deletion puts the clip at the end of the list.
RestoreClip(c) ==
  /\ Sync([project EXCEPT !.clips = Append(@, c)])
  /\ deleted' = deleted \ {c}

RangeOf(range) ==
  LET start == IF range[1] < 0 THEN 0 ELSE range[1] IN
  [start |-> start,
   end |-> IF range[2] <= start THEN start + TicksPerBeat ELSE range[2]]

SetLoop(l) ==                                     \* setLoopRange, setLoopEnabled
  /\ l # loop
  /\ loop' = l
  /\ Intervene(project, l, position)
  /\ UNCHANGED <<project, deleted, track, playing, position, current_beat, voices,
                 metronome>>

\* A synth edit publishes a plan, whose voices are fresh.
RebuildPlan ==
  /\ voices' = AllFree
  /\ Remember(sounding, spoiled \/ sounding # {})
  /\ UNCHANGED <<document, playing, position, current_beat, metronome>>

EndTick(p) == Max({ClipEnd(c) : c \in Range(p.clips)} \union {0})

\* openProject(), newProject(): the playhead is shown at 0, but not moved.
OpenProject(p) ==
  /\ playing' = FALSE
  /\ project' = p
  /\ deleted' = {}
  /\ current_beat' = 0
  /\ loop' = [loop EXCEPT !.start = 0, !.end = Max({4 * TicksPerBeat, EndTick(p)})]
  /\ track' \in Tracked(p)
  /\ voices' = AllFree
  /\ Silence
  /\ UNCHANGED <<position, metronome>>

-----------------------------------------------------------------------------
(* Transport *)

SeekBeats(beat) ==
  /\ Sample(tempo, beat) <= MaxPos
  /\ position' = Sample(tempo, beat)
  /\ current_beat' = beat
  /\ Intervene(project, loop, Sample(tempo, beat))
  /\ UNCHANGED <<document, playing, voices, metronome, edits>>

OutsideLoop(beat) == loop.enabled /\ (beat < loop.start \/ beat >= loop.end)

\* play() compiles the project once more, and goes to the loop's start when the
\* playhead that is shown is outside the loop.
Play ==
  /\ ~playing
  /\ playing' = TRUE
  /\ LET wraps == OutsideLoop(current_beat) IN
     /\ wraps => LoopStart <= MaxPos
     /\ position' = IF wraps THEN LoopStart ELSE position
     /\ current_beat' = IF wraps THEN loop.start ELSE current_beat
     /\ Intervene(project, loop, IF wraps THEN LoopStart ELSE position)
  /\ track' \in Tracked(project)
  /\ UNCHANGED <<project, deleted, loop, voices, metronome, edits>>

Stop ==
  /\ playing
  /\ playing' = FALSE
  /\ UNCHANGED <<document, position, current_beat, voices, metronome, edits, history>>

\* onTimerTick(): the shown playhead follows the engine while it plays.
OnTimerTick ==
  /\ playing
  /\ current_beat' = Ticks(tempo, position)
  /\ UNCHANGED <<document, playing, position, voices, metronome, edits, history>>

-----------------------------------------------------------------------------
(* AudioEngine::process() *)

Boundary == (LoopEnd - position) % Word           \* uint32_t boundary_offset
WrappedFrames(n) == (n - Boundary) % Word
Wraps(n) == LoopActive /\ position + n > LoopEnd

EventAt(offset, e) == [at |-> offset, kind |-> e.kind, id |-> e.id]

Segment(lo, hi) ==
  {EventAt(e.at - position, e) : e \in {f \in track : f.at >= lo /\ f.at < hi}}

\* A faulty variant: segment B starts where the loop would go on.
WrappedSegmentUnmoved(n) ==
  {EventAt((Boundary + e.at - LoopStart) % Word, e) :
     e \in {f \in track : /\ f.at > LoopStart
                          /\ f.at < LoopStart + WrappedFrames(n)
                          /\ (Boundary + f.at - LoopStart) % Word < n}}

WrappedSegment(n) ==
  {EventAt((Boundary + e.at - LoopStart) % Word, e) :
     e \in {f \in track : /\ f.at >= LoopStart
                          /\ f.at < LoopStart + WrappedFrames(n)
                          /\ (Boundary + f.at - LoopStart) % Word < n}}

\* The events of a quantum of n samples.
Block(n) ==
  IF Wraps(n) THEN Segment(position, LoopEnd) \union WrappedSegment(n)
              ELSE Segment(position, position + n)

-----------------------------------------------------------------------------
(* AudioEngine::process(): the transport and the metronome *)

\* advance_quantum()
NextPosition(n) ==
  IF LoopActive /\ position + n >= LoopEnd
  THEN LoopStart + ((position + n - LoopEnd) % (LoopEnd - LoopStart))
  ELSE position + n

\* A faulty variant: the window begins at the beat after its first sample.
WindowLate(lo, hi) ==
  {b \in (Ticks(tempo, lo) + TicksPerBeat - 1) \div TicksPerBeat
           .. (Ticks(tempo, hi) + TicksPerBeat - 1) \div TicksPerBeat :
     LET s == Sample(tempo, b * TicksPerBeat) IN s >= lo /\ s < hi}

\* check_beats(): the beats whose sample lies in [lo, hi).
Window(lo, hi) ==
  {b \in Ticks(tempo, lo) \div TicksPerBeat
           .. (Ticks(tempo, hi) + TicksPerBeat - 1) \div TicksPerBeat :
     LET s == Sample(tempo, b * TicksPerBeat) IN s >= lo /\ s < hi}

\* The beats of a window that click, given the last that did.
Clicks(window, last) ==
  IF window # {} /\ Min(window) = last THEN window \ {last} ELSE window
LastOf(window, last) == IF window = {} THEN last ELSE Max(window)

FirstWindow(n) == Window(position, IF Wraps(n) THEN LoopEnd ELSE position + n)
SecondWindow(n) ==
  IF Wraps(n) THEN Window(LoopStart, LoopStart + WrappedFrames(n)) ELSE {}

\* The clicks of a quantum of n samples, and the beat it remembers.
Clicked(n) ==
  Clicks(FirstWindow(n), metronome.last_beat)
    \union Clicks(SecondWindow(n), LastOf(FirstWindow(n), metronome.last_beat))
LastBeat(n) ==
  LastOf(SecondWindow(n), LastOf(FirstWindow(n), metronome.last_beat))

-----------------------------------------------------------------------------
(* The timeline a quantum should follow, sample by sample *)

\* A playhead at or behind the loop's end goes on as far behind its start.
Entry == IF LoopActive /\ position >= LoopEnd
         THEN LoopStart + (position - LoopEnd) ELSE position

\* Where the playhead is k samples later.
Visit(k) ==
  IF LoopActive /\ Entry + k >= LoopEnd
  THEN LoopStart + ((Entry + k - LoopEnd) % (LoopEnd - LoopStart))
  ELSE Entry + k

\* A quantum that goes around the loop at most once, and stays in it.
Fits(n) ==
  LoopActive => IF position < LoopEnd
                THEN position + n - LoopEnd <= LoopEnd - LoopStart
                ELSE Entry + n <= LoopEnd

\* The instances that should sound after the samples of a quantum.
SoundingAfter(n) ==
  LET written == Instances(project)
      at(sample) == {k \in 0 .. n - 1 : Visit(k) = sample}
      starts(i) == IF i \in written /\ NoteStart(i) < ClipEnd(i[1])
                   THEN at(OnSample(tempo, i)) ELSE {}
  IN  {i \in sounding \union written :
         LET off == at(OffSample(tempo, i)) IN
         \/ \E k \in starts(i) : \A j \in off : j <= k
         \/ i \in sounding /\ off = {}}

\* A note starts within its clip that is not released there.
StartsUnending(n) ==
  \E i \in Instances(project), k \in 0 .. n - 1 :
     /\ NoteStart(i) < ClipEnd(i[1])
     /\ Visit(k) = OnSample(tempo, i)
     /\ ~EndsAhead(tempo, loop, Visit(k), i)

PlayQuantum(n) ==
  /\ playing
  /\ NextPosition(n) <= MaxPos
  /\ position' = NextPosition(n)
  /\ \E kept \in Keeps(Block(n), Capacity) : \E order \in Orders(kept) :
       /\ voices' = Played(order)[Len(order)]
       /\ Remember(SoundingAfter(n),
             \/ spoiled
             \/ Cardinality(Compiled(project)) > TrackCapacity
             \/ kept # Block(n)
             \/ Steals(order)
             \/ ~Fits(n)
             \/ StartsUnending(n))
  /\ metronome' = IF metronome.enabled
                  THEN [metronome EXCEPT !.last_beat = LastBeat(n)] ELSE metronome
  /\ UNCHANGED <<document, playing, current_beat, edits>>

StoppedQuantum ==
  /\ ~playing
  /\ voices' = AllFree
  /\ Silence
  /\ UNCHANGED <<document, playing, position, current_beat, metronome, edits>>

-----------------------------------------------------------------------------

Init ==
  /\ project \in Projects
  /\ deleted = {}
  /\ loop = [enabled |-> TRUE, start |-> 0,
             end |-> Max({4 * TicksPerBeat, EndTick(project)})]
  /\ track \in Tracked(project)
  /\ playing = FALSE
  /\ position = 0
  /\ current_beat = 0
  /\ voices = AllFree
  /\ metronome \in [enabled : BOOLEAN, last_beat : {-1}]
  /\ edits = 0
  /\ sounding = {}
  /\ spoiled = FALSE

EditArrangement ==
  \E k \in DOMAIN project.clips :
     \/ \E start \in ClipStarts, tr \in Tracks : MoveClip(k, start, tr)
     \/ \E duration \in ClipDurations : ResizeClip(k, duration)
     \/ DuplicateClip(k)
     \/ DeleteClip(k)

EditLoop ==
  \/ \E range \in {RangeOf(r) : r \in LoopRanges} :
        SetLoop([loop EXCEPT !.start = range.start, !.end = range.end])
  \/ SetLoop([loop EXCEPT !.enabled = ~@])

Edit ==
  /\ edits < MaxEdits
  /\ edits' = edits + 1
  /\ \/ EditProject
     \/ EditArrangement
     \/ EditLoop
     \/ RebuildPlan
     \/ \E p \in Projects : OpenProject(p)

Next ==
  \/ Edit
  \/ \E c \in deleted : RestoreClip(c) /\ UNCHANGED edits
  \/ \E beat \in SeekTargets : SeekBeats(beat)
  \/ Play
  \/ Stop
  \/ OnTimerTick
  \/ \E n \in Frames : PlayQuantum(n)
  \/ StoppedQuantum

Spec == Init /\ [][Next]_vars

-----------------------------------------------------------------------------
(* Properties *)

\* The two segments of a quantum, with their unsigned offsets, play exactly
\* the events the playhead passes sample by sample, each at its sample, and
\* the transport goes on from where they end: also when the quantum begins
\* behind the loop's end, whose offset wraps.  (Quanta that go around the loop
\* more than once are excepted: the second segment then runs past its end.)
WalkFollowsTimeline ==
  \A n \in Frames : Fits(n) =>
    /\ Block(n) = UNION {{EventAt(k, e) : e \in {f \in track : f.at = Visit(k)}} :
                           k \in 0 .. n - 1}
    /\ NextPosition(n) = Visit(n)

\* What sustains in the synth is what the project says should sound: through
\* repetitions, notes that begin behind the end of their clip, mute and solo,
\* loops, seeks and edits in the middle of notes.  From stop to stop, that is,
\* and until one of these comes up, after which the code keeps no such promise:
\*   - a note sounds whose end the playhead will not come to: it ends at or
\*     behind the end of its clip or of the loop, or in the sample it begins in;
\*   - an edit, a seek or another loop takes the end of a sounding note away;
\*   - a new plan replaces the voices of notes that sound;
\*   - the project has more events than the engine holds;
\*   - a block has more than a quantum holds;
\*   - more notes sustain than there are voices, and one is stolen;
\*   - a quantum goes around the loop more than once.
SoundsAsWritten ==
  ~spoiled => Range(voices) \ {NoNote} = {NoteId(project, i) : i \in sounding}

\* The beats a quantum clicks that begins at or behind the loop's end, and that
\* the playhead does not pass: from the loop's start to where it goes on.
Skipped ==
  IF LoopActive /\ position >= LoopEnd
  THEN {b \in 0 .. Entry : Sample(tempo, b * TicksPerBeat) \in LoopStart .. Entry - 1}
  ELSE {}

\* The metronome clicks on every beat the playhead passes and on no other: no
\* beat falls between the roundings of two quanta or of a loop's seam.  Two
\* exceptions: a beat that is the last one clicked stays silent, and behind the
\* loop's end check_beats() begins at the loop's start although the playhead
\* goes on behind it, and clicks the beats in between (Skipped).
ClicksOnTheBeat ==
  \A n \in Frames : Fits(n) =>
    LET passed == {b \in 0 .. position + n :
                     \E k \in 0 .. n - 1 :
                        Visit(k) = Sample(tempo, b * TicksPerBeat)}
    IN  /\ Clicked(n) \subseteq passed \union Skipped
        /\ passed \subseteq Clicked(n) \union {metronome.last_beat}
=============================================================================
