----------------------------- MODULE MidiImport -----------------------------
(***************************************************************************)
(* import_standard_midi: the events of a file's tracks, read one after     *)
(* another, and the notes that are made of them.                           *)
(*                                                                         *)
(* The file is what the actions read: any events in any order.  Bytes are  *)
(* left out, with them what tells truncated and invalid ones apart;        *)
(* velocities go along with the notes they belong to.                      *)
(***************************************************************************)
EXTENDS Integers, Sequences, SequencesExt, FiniteSetsExt

CONSTANTS
  Keys,          \* pairs <<channel, pitch>>, NoteKey
  Deltas,        \* times between events, in ticks of the file
  Division,      \* ticks of the file per beat
  TicksPerBeat,  \* kTicksPerBeat
  MaxTracks,     \* track_count
  MaxEvents,     \* bound: events of all tracks
  None

ASSUME MidiAssumption ==
  /\ Deltas \subseteq Nat
  /\ Division \in Nat \ {0} /\ TicksPerBeat \in Nat \ {0}

VARIABLES
  state,         \* "reading", "failed" or "done"
  absolute_tick, running_status, active, notes,     \* of the track being read
  tracks,        \* result.tracks: their notes
  max_end_ticks,
  read           \* history variable: the note events of each track and its end

track == <<absolute_tick, running_status, active, notes>>
vars == <<state, track, tracks, max_end_ticks, read>>

\* midi_tick_to_beat_tick
BeatTick(tick) == (2 * tick * TicksPerBeat + Division) \div (2 * Division)

\* A note is its pitch, start and end, the end a tick behind the start at least.
Note(key, start, end) ==
  [pitch |-> key[2], start |-> BeatTick(start),
   end |-> Max({BeatTick(start) + 1, BeatTick(end)})]

Ends(made) == {made[i].end : i \in DOMAIN made}

-----------------------------------------------------------------------------

\* A faulty variant of Finished: the note struck last ends first.
FinishedLast(playing, key, tick) ==
  IF playing[key] = << >> THEN [active |-> playing, note |-> << >>]
  ELSE [active |-> [playing EXCEPT ![key] = Front(@)],
        note |-> <<Note(key, Last(playing[key]), tick)>>]

\* finish_note: the oldest note of the key, if there is one.
Finished(playing, key, tick) ==
  IF playing[key] = << >> THEN [active |-> playing, note |-> << >>]
  ELSE [active |-> [playing EXCEPT ![key] = Tail(@)],
        note |-> <<Note(key, Head(playing[key]), tick)>>]

\* The notes that still sound when the track ends, in any order of the keys.
Rest ==
  LET left(key) == [i \in DOMAIN active[key] |->
                      Note(key, active[key][i], absolute_tick)]
  IN  {FlattenSeq([i \in DOMAIN order |-> left(order[i])]) :
         order \in SetToSeqs(Keys)}

Events == FoldLeft(LAMBDA n, t : n + t.count, 0, read)

Reading == state = "reading"

\* The time before an event.
Later(delta) ==
  /\ Reading
  /\ Events < MaxEvents
  /\ absolute_tick' = absolute_tick + delta
  /\ UNCHANGED <<state, tracks>>

Logged(event) ==
  read' = [read EXCEPT ![Len(read)].events = @ \o event,
                       ![Len(read)].count = @ + 1]

Logs(kind, key) == Logged(<<[kind |-> kind, key |-> key, tick |-> absolute_tick']>>)

\* A note event, its status byte given or the running one.
NoteOn(key, delta) ==
  /\ Later(delta)
  /\ running_status' = <<"on", key[1]>>
  /\ active' = [active EXCEPT ![key] = Append(@, absolute_tick')]
  /\ Logs("on", key)
  /\ UNCHANGED <<notes, max_end_ticks>>

\* A NoteOff, or a NoteOn without velocity.
NoteOff(key, delta) ==
  /\ Later(delta)
  /\ running_status' \in {"on", "off"} \X {key[1]}
  /\ LET done == Finished(active, key, absolute_tick')
     IN  /\ active' = done.active
         /\ notes' = notes \o done.note
         /\ max_end_ticks' = Max({max_end_ticks} \cup Ends(done.note))
  /\ Logs("off", key)

\* Other channel events, meta and system events: these end the running status,
\* those set it, and some leave it.
Skipped(delta) ==
  /\ Later(delta)
  /\ running_status' \in {None, running_status} \cup {<<"other", k[1]>> : k \in Keys}
  /\ Logged(<< >>)
  /\ UNCHANGED <<active, notes, max_end_ticks>>

\* Data without a status byte to run on.
DataWithoutStatus ==
  /\ Reading
  /\ running_status = None
  /\ state' = "failed"
  /\ UNCHANGED <<track, tracks, max_end_ticks, read>>

\* The bytes are truncated or invalid.
Unreadable ==
  /\ Reading
  /\ state' = "failed"
  /\ UNCHANGED <<track, tracks, max_end_ticks, read>>

NewTrack == [events |-> << >>, count |-> 0, end |-> 0]

\* The state of a track is its own.  Another one is read, or the file is done.
NextTrack ==
  /\ absolute_tick' = 0
  /\ running_status' = None
  /\ active' = [key \in Keys |-> << >>]
  /\ notes' = << >>
  /\ LET ended == [read EXCEPT ![Len(read)].end = absolute_tick]
     IN  IF Len(read) < MaxTracks
         THEN read' = Append(ended, NewTrack) /\ UNCHANGED state
         ELSE /\ read' = ended
              /\ state' = IF tracks' = << >> THEN "failed" ELSE "done"

Imported(made) == IF made = << >> THEN tracks ELSE Append(tracks, made)

\* The track ends: the notes that sound end with it, and a track without notes
\* is dropped.
TrackEnd ==
  /\ Reading
  /\ \E rest \in Rest :
       /\ tracks' = Imported(notes \o rest)
       /\ max_end_ticks' = Max({max_end_ticks} \cup Ends(rest))
  /\ NextTrack

Init ==
  /\ state = "reading"
  /\ absolute_tick = 0
  /\ running_status = None
  /\ active = [key \in Keys |-> << >>]
  /\ notes = << >>
  /\ tracks = << >>
  /\ max_end_ticks = 0
  /\ read = <<NewTrack>>

Next ==
  \/ \E delta \in Deltas :
       \/ \E key \in Keys : NoteOn(key, delta) \/ NoteOff(key, delta)
       \/ Skipped(delta)
  \/ DataWithoutStatus \/ Unreadable \/ TrackEnd

Spec == Init /\ [][Next]_vars

\* result.length, what importMidi gives every pattern it makes.
Length == Max({max_end_ticks, TicksPerBeat})

-----------------------------------------------------------------------------
(* What the file says, counted and not paired.                             *)

\* The events of a key in a track.
Of(t, key) == SelectSeq(t.events, LAMBDA e : e.key = key)

Count(events, kind, first, last) ==
  Cardinality({i \in first .. last : events[i].kind = kind})

\* How many notes have ended after the first n events of a key: every release
\* ends one, but for those that come when none sounds.
Ended(events, n) ==
  Min({Count(events, "on", 1, i) + Count(events, "off", i + 1, n) : i \in 0 .. n})

\* The notes of a key: the m-th strike ends with the m-th note, or the track.
Written(t, key) ==
  LET events == Of(t, key)
      strikes == SelectSeq(events, LAMBDA e : e.kind = "on")
      releases(m) == {n \in DOMAIN events : Ended(events, n) >= m}
      end(m) == IF releases(m) = {} THEN t.end ELSE events[Min(releases(m))].tick
  IN  [m \in DOMAIN strikes |-> Note(key, strikes[m].tick, end(m))]

Times(note, made) == Cardinality({i \in DOMAIN made : made[i] = note})

-----------------------------------------------------------------------------
(* Properties.                                                             *)

\* An imported track has for every key struck in its file one note, which ends
\* with the release of that strike: the oldest strike's first, releases of
\* nothing not counted, and at the end of the track where there is none.
\* Tracks without notes are left out.  The length that all patterns get holds
\* every note of every track, so that no clip cuts one.
NotesFollowFile ==
  state = "done" =>
    LET written == [i \in DOMAIN read |->
                      FlattenSeq([k \in DOMAIN SetToSeq(Keys) |->
                                    Written(read[i], SetToSeq(Keys)[k])])]
        sounding == SelectSeq(written, LAMBDA w : w # << >>)
    IN  /\ Len(tracks) = Len(sounding)
        /\ \A i \in DOMAIN tracks :
             \A note \in Range(tracks[i]) \cup Range(sounding[i]) :
               /\ Times(note, tracks[i]) = Times(note, sounding[i])
               /\ note.end <= Length
=============================================================================
