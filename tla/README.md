# A TLA+ model of Saudade

Saudade is a music editor: a Qt user interface over an audio engine that a
PipeWire (or offline) endpoint calls once per *quantum*, a block of 64 to 1024
frames. What makes it hard is the boundary between two threads that share memory
without locks: the *control thread* (the Qt main thread) edits, plays, seeks,
publishes; the *realtime (RT) thread* runs `AudioEngine::process`. This directory
models that boundary, one protocol per module, checks each with TLC and proves
the central ones with TLAPS. Behind it, on the control thread alone, it models the
editing of notes and of the arrangement with their undo histories, the document with
its files, dialogs and recovery, and the life of the PipeWire endpoint; and across
all of it, from the clips of a project to what sounds, one model takes a quantum as
a single step.

## 1. The system

| Component | State it keeps | Operations | What makes it hard, what makes it correct |
|---|---|---|---|
| **PlanPublisher** (`libs/audio`) | the active plan's pointer (atomic), its owner, the retired plans with their barriers, the last completed generation (atomic) | `publish`, `collect_retired`, `prepare`, destruction; RT: `acquire_current_for_quantum`, `acknowledge_completed_generation` | Memory is freed while another thread runs. No plan in use is freed, none leaks, no quantum outgrows its buffers. |
| **TransportController** (`libs/time`) | requested play/loop/seek (atomics), acknowledged seek and position (atomics), the RT position and snapshot | `play`, `stop`, `seek_*`, `set_loop_*`, `current_sample`; RT: `acquire_snapshot`, `advance_quantum` | Two-store commands seen half; a seek against the advance of a quantum. The playhead is never older than the last seek, no seek is lost, a loop keeps the playhead. |
| **TempoMap, time types** (`libs/time`) | tempo | beat/tick/sample conversions | Rounding at boundaries; `set_bpm` writes plain memory the metronome reads. |
| **SpscEventQueue** (`libs/events`) | ring, two indices (atomics), the producer's order check | `schedule_*`, `reset_schedule_tracking`; RT: `peek`, `pop` | Wrap, full, order. A bounded FIFO without slot races, sorted for its consumer. |
| **Event types, EventBlock** (`libs/events`) | the events of one quantum (at most 512) | `push_back`, `sort` | The total order at one frame; overflow. |
| **AudioEngine** (`libs/audio`): flush and ingress | two flush generations (atomics) | `request_event_flush`, `wait_for_flush`, `flush_events`; RT: the answer, the drain | A wait that times out and is answered later. |
| AudioEngine: track buffers | two buffers (plain memory) and the active index (atomic) | `set_track_events`; RT: `clear_track_events`, the scan | Nothing tells the writer that the reader is done. |
| AudioEngine: live audition | pitch, velocity, press and release counters (atomics), last seen counters | `audition_note_on/off`; RT: the events made of them, the stop path | Four atomics that are not read together. |
| AudioEngine: timeline walk, metronome, gain, telemetry | metronome state, meters | RT only | Loop boundary arithmetic in `uint32_t`. |
| **RenderPlan, PolySynth** (`libs/renderplan`) | 16 voices per synth | RT: `render`, events, envelopes | Voice stealing against NoteOff by id. |
| **GraphModel, GraphCompiler** (`libs/graph`) | nodes, connections | validate, compile | Kahn's order, buffer assignment. |
| **Music model** (`libs/model`) | project, tracks, clips, patterns, lanes, notes | add/remove/move/... | Identities across undo. |
| **PatternCompiler, MIDI import** (`libs/model`) | none | notes to events, events to notes | Pairing, clip ends, loops. |
| **CommandHistory, commands** (`apps/saudade`) | undo and redo stacks, an open batch | `push`, batches, `undo`, `redo` | Commands find notes by id; undo inside a batch; undo on another sequence. |
| **EditorController** (`apps/saudade`) | the document, the active clip, selection, clipboard, history, dirty flag, recovery file | every command of the user interface, two timers | Partial failure of open/save; recovery; ids that dangle after undo. |
| **ProjectFile, ProjectExporter** (`apps/saudade`) | files | load, save, export | Atomic replacement; export re-enters the event loop. |
| **PipeWireEndpoint** (`adapters/pipewire`) | loop thread, stream, running flag | `start`, `stop`, callbacks | Stop during startup. |
| OfflineEndpoint, AudioBuffer, allocation guard | - | - | - |
| **PianoRollItem, velocity lane** (`apps/saudade`) | the drag: mode, notes at the press | press, move, release; keys | Keys are handled during a drag, whose edits the history does not know yet. |
| Piano keys, other QML | view state | mouse and paint | Source of the audition calls. |
| main and the proof programs | - | construction | - |

How they interact. The control thread calls `EditorController`, which changes the
music model, compiles it to a sorted `TimelineEvent` vector and hands it to
`AudioEngine::set_track_events`; compiles a `GraphModel` to a `RenderPlan` and
hands it to `publish_plan`; and commands the transport. A 16 ms timer
(`onTimerTick`) reads the playhead and calls `collect_retired`. Each quantum,
`AudioEngine::process` takes the transport snapshot, pins the plan, answers a
flush, makes events of audition counters, track buffer and queue, sorts them,
renders, acknowledges the generation and advances the transport. No call back
from the RT thread exists: all answers are atomics that the control thread polls.

## 2. Modules

| Module | Models | Refines / extends |
|---|---|---|
| `PlanReclamation` | the promise of plan publication: plans are allocated, installed in order, pinned for a quantum and reclaimed only when neither installed nor pinned | |
| `PlanPublisher` | `PlanPublisher` and the calls `AudioEngine` makes of it | implements `PlanReclamation` |
| `PlanPublisherProofs` | its theorems | extends `PlanPublisher` |
| `Transport` | `TransportController` | |
| `MCTransport` | its small instance | extends `Transport` |
| `TransportProofs` | its theorems | extends `Transport` |
| `EventFifo` | the promise of the queue: a bounded FIFO | |
| `EventIngress` | `SpscEventQueue`, the flush handshake, the drain loop of `process` | implements `EventFifo` |
| `EventIngressProofs` | its theorems | extends `EventIngress` |
| `TrackBuffers` | the two track buffers, `set_track_events`, the flush's `clear_track_events`, the scan | |
| `TrackBuffersProofs` | its theorems | extends `TrackBuffers` |
| `PolySynth` | the voices of a synth, as operators on a function from voices to records | |
| `Audition` | live audition in front of that synth | extends `PolySynth` |
| `MCAudition` | its small instances | extends `Audition` |
| `AuditionProofs` | its theorems | extends `Audition` |
| `DocumentTimeline` | the promise of undo: documents on a line, and a cursor | |
| `EditHistory` | note editing of `EditorController`, the commands, `CommandHistory`, `NoteSequence`, the drags of `PianoRollItem` and the velocity lane | implements `DocumentTimeline` |
| `MCEditHistory` | its small instance | extends `EditHistory` |
| `Playback` | `TempoMap`, compilation of a project, the transport commands of `EditorController`, the segments and the metronome of `process`, the quantum's event block | |
| `MCPlayback` | its small instance | extends `Playback` |
| `PlaybackProofs` | its theorems | extends `Playback` |
| `Session` | new, open, save, autosave, recovery, export of `EditorController`; the dialogs of `Main.qml` | |
| `MCSession` | its small instance | extends `Session` |
| `Endpoint` | `PipeWireEndpoint` and its use in `main` | |
| `MCEndpoint` | its small instance | extends `Endpoint` |
| `EndpointProofs` | its theorems | extends `Endpoint` |
| `Arrangement` | `Project`, the arrangement commands of `EditorController` with their undo, MIDI import, the project on its way through a file | |
| `MCArrangement` | its small instance | extends `Arrangement` |
| `EditorProofs` | the theorems of the editor's three state machines | extends `Session`, `EditHistory`, `Arrangement` |
| `MidiImport` | `import_standard_midi`, event by event | |
| `MCMidiImport` | its small instance | extends `MidiImport` |

Conventions. Each variable has the name of the member it stands for. `ctl` and
`rt` are the program counters of the two threads. Every access to an atomic that
both threads use is a step of its own, and copying non-atomic memory that the
other thread can reach lasts from one state to the next. All pairs of accesses
that hand over data are release/acquire (`static_assert`ed lock-free), and no
decision depends on two atomics written by different threads in opposite orders,
so interleaving the steps covers what the hardware can show. Local variables go
back to a fixed value when their scope ends. A variable introduced only to state
a property (where a position comes from, which call a track stems from) is marked
*history* at its declaration and never appears in a guard (but see the bound of
`edit_history` in section 3). Operators whose comment begins
with "A faulty variant" are deliberately wrong: each stands for a plausible bug of
the definition it precedes, and substituting it makes a property fail, which shows
that the property depends on the code.

### PlanPublisher

`active_plan` and `completed_generation` are the two atomics. `PublishPrepare` is
`publish` up to the release-store, `PublishStore` the store and the return;
`CollectLoad`/`CollectErase` are `collect_retired` around its acquire-load;
`Prepare` and `Destroy` are `AudioEngine::prepare` and the destructor, both
guarded by what their comments demand: that no quantum runs. `RtAcquire` is the
prefix of `process` with its early returns (a block larger than
`max_block_size_`, no plan), `RtAcknowledge` its end. A plan is named by its
generation, `scratch` holds the frames its buffers were sized for.

### Transport

`SeekStoreTarget`/`SeekBumpVersion` and `LoopStoreStart`/`LoopStoreEnd` split the
commands of two stores. `QueryVersions`/`QueryPosition` are `current_sample`, which
answers the target while a seek is unacknowledged. On the RT side
`RtLoadVersion`, `RtTakeTarget`, `RtStorePosition`, `RtAckSeek`, `RtReadStart`,
`RtReadEnd` are `acquire_snapshot`, and `RtAdvance`, `RtPublishPosition`,
`RtStay` are `advance_quantum`, whose modulo is the operator `Advanced`.
`cur_origin` and `pos_origin` record which seek a position stems from.

### EventIngress

The ring is modelled with its indices wrapping at `Modulus` (2^64 in the code)
and masked to `Capacity` slots. `ScheduleCheck`, `ScheduleFill`, `SchedulePublish`
are `schedule_event`. `FlushRequest`, `FlushDone`, `FlushTimeout` are `flush_events`
with its wait, `RtLoadFlush` to `RtFlushAck` the RT side, `RtPeek` to `RtStop` the
drain loop. Of the transport only what `process` sees is kept.

### TrackBuffers

`SetBegin`, `SetCopy`, `SetCount`, `SetPublish` are `set_track_events` slot by slot;
`RtClearLoad`, `RtClearCount`, `RtClearStore` the `clear_track_events` that the
RT thread itself runs in a flush; `RtLoadTrack`, `RtReadEvent`, `RtEnd` the scan,
whose loop condition loads `count` for every slot. `std::sort` permutes the slots
of one buffer and no property tells the slots apart, so it is the time between
`SetCount` and `SetPublish`. A track is named by the call that set it.

### Audition and PolySynth

`NoteOnPitch`, `NoteOnVelocity`, `NoteOnTrigger`, `NoteOffRelease` are the control
side. `RtLoadTrigger`, `RtLoadRelease`, `RtLoadPitch`, `RtLoadVelocity` are the
loads of a quantum and `RtRender` the rest: the stop path, the events in the order
`sort()` gives them (NoteOff before NoteOn at one frame; the NoteOn of a key and one of the
song in either order, which their ids decide), voice choice and one
quantum of the envelopes. The song is an environment that may bring a NoteOn or a
NoteOff per playing quantum.

### EditHistory

One action per event handler: `Press...`, `Drag...`, `Release...` are the branches of
the mouse handlers of `PianoRollItem`, `BeginVelocityGesture` to
`CommitVelocityGesture` those of the velocity lane, `MoveSelected` to `Redo` the key
commands and the calls of `EditorController` behind them. A drag writes the notes
directly, so `notes` changes at once and the stacks change at the release. A command
is the sequence of its parts; `Undone` and `Redone` go through the functions of
`NoteSequence`, which refuse duplicate ids, negative starts and unknown notes, whereas the
edits themselves write past them. Start and pitch are one value, as one command
moves both. The selection is any set of notes at every use, so that every way of
selecting is included. `Docs` computes, from the current notes and the stacks, the
documents that undo and redo would lead through, with the effect of an open gesture
taken back (`Settled`); this is the refinement mapping to `DocumentTimeline`.

### Playback

`Sync` is `syncPatternToEngine` behind every edit of the project: `project` changes
and `track` becomes one of `Tracked(project)`: `Compiled` is `compile_project_events` with the
`PatternCompiler` inside, and `Tracked` as much of it as `set_track_events` takes
(`TrackCapacity`). `Compiled` has the repetitions of the pattern, the cut at the clip's end, mute
and solo, and the ids (`NoteId`: the first clip's first repetition keeps the notes'
ids, all others are renamed). `Rounded`, `Sample` and `Ticks` are the conversions of
`TempoMap`, with `llround`, over exact fractions. `PlayQuantum` is `process` in one
step: `Segment` and `WrappedSegment` collect the events before and after the loop's
seam with `uint32_t` offsets (`% Word`), `Keeps` is the block that drops what
overflows, `Orders` what `sort()` makes of it (ids are hashed, so events that differ in nothing
else come in either order), `Played` the synth: `Taken` is its voice choice among
`VoiceCount` voices, with the stealing of the oldest, `Apply` a NoteOn or NoteOff. `NextPosition` is
`advance_quantum`, `Window` and `Clicks` are `check_beats`. The stages of a voice are in
`PolySynth`: here `voices` holds the note that sustains in each, or none when it is
free or releases. Keys pressed by the user take voices from the same pool, which is in `Audition` only. `Play`, `Stop`, `SeekBeats`,
`OnTimerTick`, `SetLoop` and `OpenProject` are the members of `EditorController`,
whose `current_beat` is a copy of the playhead that they and the timer maintain.
`sounding` (history) is kept from the *project*, sample by sample (`Visit`), not from
the compiled events; `spoiled` (history) says that one of the cases listed in
section 3 has come up, after which the synth may hold something else until the next stop.

### Session

`ctl` holds what `EditorController` and the disk hold; `NewProject`, `Saved`,
`OpenProject`, `RecoverAutosave`, `Autosaved` map one such state to the next, in the
order of the code: `OpenProject` replaces the project before it can still fail
(`half`). The actions are the shortcuts, the buttons of the dialogs and
`onClosing` of `Main.qml`, with `performProjectAction` (`Perform`) behind them. Modal
dialogs keep the user from the window; the timer and the close button go on behind
those drawn inside it. `Interrupted` is a crash while `QSaveFile` writes: the file is
what it was. Two different saves differ in `doc.n`, which is new for every edit.

### Endpoint

One action per step of `loop_thread_fn` between two points another thread can see,
with its two error paths (`FailForget`, `FailEnd`), of `start`, `wait_for_stream` and
`stop` in the main thread, and of `handle_process` in PipeWire's data thread.
`RunLoop` includes that `pw_main_loop_run` may forget a quit from before it.
`Dispatch` hands a registry event to `RegistryContext`, whose `try_link` is `Wanted`
and `TryLink`; any of the new pairs may turn out not to be makable (`failed`, history).
Besides, `pw_main_loop_new`, `pw_filter_new_simple` and `pw_filter_connect` may fail, as
the code tests for it. Sinks appear and vanish (`Plug`, `Unplug`), and PipeWire gives ids out
again; these two and `Plugged` are external.

### Arrangement

One action per command, with the name of the member of `EditorController`. The two
closures of an arrangement edit become a record that holds what they capture;
`EditUndone` and `EditRedone` do what they do, through the functions of `Project` that refuse
duplicate ids and clips without a track or pattern. `Loaded` is what `ProjectFile::load`
makes of what `save` wrote, and `Loadable` its checks; in `ArrangementNext`, the project is
saved and opened again at any time. `notes_undo` names, for each entry of the note
history, the pattern it was made in. `docs` (history) are the documents from before
the oldest command to after the newest, with whatever was imported since added to
each, because `importMidi` makes no entry.

### MidiImport

The file is what the actions read, in any order. `NoteOn`, `NoteOff` and `Skipped` are
the kinds of events, with the running status they leave; an event whose status byte is left out
has the same effect as one that repeats it, so both are one action. `Finished` is
`finish_note`, `TrackEnd` the end of a track with the notes that still sound.
`read` (history) is the file; `Written` says by counting, without a queue, where the
m-th note of a key must end: with the first event by which m notes have been ended,
where the number ended is the least, over all earlier moments, of the strikes until then plus
the releases since.

## 3. Runs

| Run | Instance | States | Shows |
|---|---|---|---|
| `plan_publisher` | 5 plans, block sizes 1 and 2 | 10 269 | no use after free, no dangling pointer, buffers fit, acknowledgements grow, every retired plan is reclaimed, `PlanReclamation` is implemented |
| `transport` | 2 seeks, 3 loops, quanta of 1 and 2 samples, timeline 0..4 | 630 285 | the playhead query is never stale, every seek lands, a loop keeps the playhead |
| `event_ingress` | 2 slots, indices mod 4, 2 flushes, timeline 0..1 | 1 115 104 | no slot race, a flush leaves nothing old, the ring is sorted until a seek passes over a filled one, every flush is answered, `EventFifo` is implemented |
| `track_buffers` | 2 slots, 3 calls, 2 flushes | 67 043 | a quantum in which no call completes plays one whole track; the last track set is the one that plays |
| `audition` | 2 voices, 2-quantum envelopes, 2 presses, 2 releases, 1 note of the song, 1 reset | 577 652 | the last press sounds untorn, what sounds is known to the engine, a stop silences the song, a release silences the key unless a quantum saw its press together with a release |
| `edit_history` | 2 notes, 2 positions, 2 durations, 2 velocities, 2 parts of commands | 305 650 | undo and redo walk along the documents the edits went through; notes stay valid; ids are not reused |
| `playback` | 2 clips of a pattern with 2 notes of a pool of 3, 2 tempos, 3 loops, quanta of 3 samples, 3 voices, a track of 18 events, 1 edit | 143 151 | the two segments play what the playhead passes, what sustains is what the project says, the beats it passes click |
| `session` | 2 project files and a recovery file, 3 edits | 184 552 | a document shown as saved is saved, autosaved work stays until it is given up, only Discard loses work |
| `endpoint` | 2 sinks, 2 plugs, port ids that are reused, links that fail | 521 680 | every sink is linked unless its link could not be made, `stop` of a running loop returns with nothing left running |
| `arrangement` | 3 commands, 1 note edit, imports of 1 and 2 tracks | 303 538 | every project can be saved and opened, undo and redo walk along the documents, the note history belongs to the open pattern |
| `midi_import` | 2 tracks, 4 events, one pitch on 2 channels | 219 047 | each strike becomes one note that ends where the file says, within the length of the patterns |
| `short_note` | as `edit_history`, shortest drag 2 | - | the disagreement below |

Why the bounds are enough. *Plans*: a plan is loaded, replaced while
rendered, replaced again before any quantum sees the replacement, and reclaimed
through a later generation; that takes four generations, and five add one more
publication behind. *Transport*: two seeks let one be half stored while another
awaits its acknowledgement; the loops are longer and shorter than a quantum, and
one is given backwards; the timeline reaches behind every loop. *Ring*: with two
slots and indices modulo four the ring is full, empty and wrapped in every
combination; two flushes let the second be requested after the first timed out.
*Tracks*: three calls let a quantum outlive two swaps with a call
in progress, and two slots let a track be longer than its predecessor and shorter.
*Audition*: two voices are both stolen from by one note of the song and two
presses; two-quantum envelopes let a release be interrupted by a press. The
two presses differ in pitch and in velocity, so a mixture is told from both.

*Edits*: two parts are an entry below an entry, or a batch of two whose order matters; two
notes let one be deleted while the other is dragged, and one be the copy of the other. After
a key has touched the history under an open gesture, the gesture is still finished and undo and
redo are followed, but no further edit begins until another clip is opened (`Followed`, the
one guard that reads a history variable): from there on the documents drift without bound.

*Playback*: with two and a half samples to the beat, beats and notes fall between
samples and round both ways; the first clip is as long as one and a half patterns, so
a repetition is cut; at one of the tempos a note ends on the sample its clip ends on, one overlaps the
next repetition and the other clip's notes, and one is shorter than a sample. Of the loops one is shorter than the
quantum of three samples, one is given backwards, and a seek leads behind all. The
block holds three events, so that it overflows, and there are three voices, so that a NoteOn finds all of
them sustaining. A track holds eighteen events: the project it starts with has twelve,
and twenty when an edit draws the third note. One edit is enough for an edit in the
middle of a note and for every stale copy; the songs end at sample 11, behind two
repetitions. `Word` is 64 where the code has 2^32: all that matters is that it exceeds what
can be subtracted. *Session*: with two files the user can save over the file of another
project; three edits allow one before, one between and one after an autosave; the disks
hold projects, one without a lane, or something that is no project. In the Save dialog
the user does not name the recovery file (see below what happens then); opening it by
name is included. *Endpoint*: two sinks and two plugs let one be announced
while the other is half handled, or take the ids of one that has gone, wholly or for
one channel; of the links that are made at once, any may fail. *Arrangement*: three commands are a change below a change below a
deletion, or two undone and one done again with an import between; start 0 is where the first
clip is, 4 where another is moved. Four commands, with one start and one import, were
checked as well (1 104 326 states) and take longer without showing more.

*MIDI*: two strikes and two releases of one key
in one track are four events, the least that can be paired wrongly; two ticks of the file may round to one; five
events were checked as well.

Fairness. `plan_publisher` assumes that a begun call returns, that the timer keeps
calling `collect_retired` (`EditorController::onTimerTick`), and that quanta
follow one another while the endpoint runs; the liveness property is about
behaviours in which it stays running. The other `FairSpec`s assume only that the host keeps
calling `process` and that no step of it blocks (`WF_vars(Realtime)`), which
is what "realtime" means. The control thread is never assumed to do anything. `endpoint`
assumes that the program's own threads go on: the loop thread through each of its steps,
a begun `stop` through its two, a callback that was entered to its return. Nothing is
assumed of the user, of sinks, or of callbacks being started.

Deadlock is checked in every run but `plan_publisher`, where the destroyed
publisher, and the bound on plans, end the behaviour, `endpoint`, where the
program ends, or waits for a loop that will not quit, and `midi_import`, which ends
with the file.

### Where the code and what is said of it disagree

`short_note`: `note.hpp:22-27` lists what holds of every note, a start that is
not negative among it. A drag of the start of a note shorter than 1/32 beat at
the beginning of the clip clamps to a range whose upper bound is negative, and the note
starts before the clip; a project saved with it is refused by `ProjectFile`.
With notes of at least 1/32 beat `NotesAreValid` holds (`edit_history`).

### What the properties except

Each property is stated as strongly as the code keeps it. Where it makes an exception, the
code does something its reader should know:

- *Tracks* (`WriterOffReader`, `QuantumPlaysOneTrack`): `set_track_events` writes the buffer that is not active, and
  the second of two calls around one quantum writes the one the quantum still reads.
- *Queue* (`SortedUntilSought`): `seek_samples` lets the producer start again at an
  earlier position without emptying the ring. An event that lies ahead then hides the
  ones behind it, as the drain loop stops at the first event past the block.
- *Audition* (`ReleaseSilencesUnlessClicked`): when one quantum sees a press and its release,
  `sort()` puts the NoteOff first and the note sounds on; so it does when the
  release is loaded by the quantum that loaded the trigger too early. `clicked` does not tell whose release
  the quantum saw: a press is excepted as well when it is seen together with the release of the key before.
- *Note edits* (`ImplementsTimeline`): keys and right clicks are handled while a drag is open.
  An undo in the middle of a move is followed by a release that records the way from where
  the note was *before* that undo, and drops the redo stack: the undone edit can be
  neither redone nor undone again.
- *Playback* (`SoundsAsWritten`, through `spoiled`). The promise holds from one stop to the next, and until one of
  these comes up:
  - A note sounds whose end the playhead does not come to. A NoteOff on the last sample of its clip or behind it
    is dropped (`editor_controller.cpp:934`), one on the loop's end or behind it is never passed,
    and a note shorter than a sample has its NoteOff before its NoteOn: it sustains until something else ends it.
    (A note that *begins* at or behind the end of its clip is not played; that is checked.)
  - An edit, a seek or another loop takes the end of a sounding note away: what mutes, moves, shortens or deletes it, a
    change of tempo, a seek behind its end, and a new first clip (whose ids are the plain ones) leave
    a NoteOff behind that no longer comes or no longer matches.
  - A new plan comes, whose voices are fresh, while notes sound.
  - The project has more than `kMaxEvents` events: `set_track_events` drops the last ones (`engine.cpp:37`),
    among them NoteOffs.
  - A block overflows, and drops whichever events came last.
  - A NoteOn finds all voices sustaining and takes the oldest one's (`render_plan.cpp:245`): that note is
    not heard to its end. There are 16 voices (`kVoiceCount`); the repository's README says 8.
  - A quantum goes around the loop more than once (next item).
- *Playback* (`WalkFollowsTimeline`, `ClicksOnTheBeat`): a loop shorter than a quantum is gone around once,
  the rest of the quantum plays past its end.
- *Playback* (`ClicksOnTheBeat`): when a loop begins on the beat that was clicked last, that beat stays silent. When
  the playhead is at or behind the loop's end (after a seek, or a change of the loop while playing), `check_beats` begins at the loop's start
  (`engine.cpp:387`) although the playhead goes on behind it: the beats in between, `Skipped`, click
  without being passed.
- *Playback*: after opening a project the shown playhead is at 0, the engine's is where it was, and `play`
  decides by the shown one whether to go to the loop's start.
- *Session* (`CleanMeansSaved`, `half`): `openProject` replaces the project before it looks for the first lane;
  when that fails, the path is still the old one, and the next save writes the new
  project over the old file.
- *Session* (`ctl.path # Recovery`): saving onto the recovery file deletes what was just written. After opening the
  recovery file by name, that is what Save does.
- *Session* (`AutosavedWorkSurvives`, `waived`): Close and then Discard leaves the recovery file, so the discarded work is
  offered at the next start.
- *Endpoint* (`StopReturns`): `stop` before the loop runs finds no loop to quit, or a quit that is lost, and its `join`
  does not return. The error paths destroy the loop before they clear the pointer `stop` reads.
- *Endpoint* (`EverySinkLinked`, `failed`): `try_link` notes a pair as linked (`pipewire_endpoint.cpp:93` and `:110`) before
  `pw_core_create_object` can fail (`:100` and `:117`). Such a link is never tried again.
- *Endpoint* (`EverySinkLinked`): there is no `global_remove`, so a pair of ids given out again counts as linked. Every
  sink is linked, not only the default one.
- *Arrangement* (`UndoLeadsBack`): an import is not undoable. Undoing the creation of a pattern leaves it active; redoing
  it brings it back as it was created, without the notes drawn since (notes are not part of this model).

## 4. Proofs

TLAPS proves, for every value of the constants that satisfies the assumptions
declared beside them:

| Theorem | States |
|---|---|
| `PlanPublisherProofs!TypeCorrect` | `TypeOK` always holds |
| `PlanPublisherProofs!PinnedPlanIsAlive` | the plan of a running quantum is never freed |
| `PlanPublisherProofs!PublishedPointerIsAlive` | the published pointer never dangles |
| `PlanPublisherProofs!QuantumFitsScratch` | no quantum outgrows the buffers of its plan |
| `PlanPublisherProofs!AcknowledgementsGrow` | completed generations never go back |
| `PlanPublisherProofs!Refinement` | the protocol implements `PlanReclamation` |
| `TransportProofs!TypeCorrect` | `TypeOK` always holds |
| `TransportProofs!PlayheadIsFresh` | a playhead query is never older than the last seek |
| `TransportProofs!LoopIsKept` | a looped quantum of any length ends inside its loop |
| `TrackBuffersProofs!TypeCorrect` | `TypeOK` always holds: no slot outside a buffer is touched |
| `TrackBuffersProofs!OneCallIsSafe` | one `set_track_events` during a quantum never writes what it reads |
| `TrackBuffersProofs!OneTrackPerQuantum` | a quantum that no swap interrupts plays events of one track |
| `TrackBuffersProofs!LastTrackIsActive` | the active buffer holds the track set last |
| `EventIngressProofs!TypeCorrect` | `TypeOK` always holds |
| `EventIngressProofs!SlotsAreNotShared` | the producer never fills the slot the consumer reads |
| `EventIngressProofs!FlushEmpties` | an acknowledged flush leaves nothing from before it |
| `EventIngressProofs!RingIsSorted` | the ring is sorted until a seek passes over a filled one |
| `EventIngressProofs!RingImplementsFifo` | the ring implements `EventFifo` |
| `AuditionProofs!KeysAreKnown` | a key that sounds is one the engine knows it has to release |
| `AuditionProofs!LastCallIsHeard` | the last press sounds with its own pitch and velocity |
| `PlaybackProofs!QuantumFollowsTimeline` | the two segments of a quantum are the samples the playhead passes |
| `PlaybackProofs!MetronomeKeepsTime` | a quantum clicks on the beats it passes, but for the one clicked last, and on no others but, behind the loop's end, those that are `Skipped` |
| `PlaybackProofs!HeldIsWritten` | what sustains in the synth is what the project says should sound, until one of the seven cases of section 3 comes up |
| `EditorProofs!SavedIsOnDisk` | a document shown as saved is what its file holds |
| `EditorProofs!AutosaveIsKept` | autosaved work stays until it is saved or given up |
| `EditorProofs!WorkIsNotLost` | only Discard loses work |
| `EditorProofs!IdsStayUnique` | no id that a note, a command or a gesture knows is given out again |
| `EditorProofs!NotesStayValid` | where no note is shorter than the shortest drag, every note keeps a start from 0 on and a length |
| `EditorProofs!EditsMakeATimeline` | under the same hypothesis, note editing implements `DocumentTimeline` |
| `EditorProofs!ProjectReopens` | every project is accepted when it is loaded again, and is the same then |
| `EditorProofs!UndoneLeadsBack` | undo and redo of the arrangement walk along its documents |
| `EditorProofs!NotesHistoryIsOpen` | the note history belongs to the open pattern |
| `EndpointProofs!SinksAreLinked` | every sink whose ports were reported is linked, unless its link failed or its ids are given out again |

*PlanPublisher.* None of the safety properties is inductive: nothing in
`NoUseAfterFree` says why the plan a quantum pinned should outlive a
collection. The inductive invariant `IInv` says where a pinned plan can be: it is
the active one, or it is retired behind a barrier above everything acknowledged.
That needs in turn that barriers lie above the generation they guard and at most
at the newest one, that the acknowledged generation is at most the pinned and the
published one, and that a collector's local copy is at most the acknowledged one.
From `IInv` each property follows, and the refinement has one step per action: a publication
is `Allocate` then `Install`, a collection `Reclaim`, a quantum `Pin` and `Unpin`.

*Transport.* `NoStalePlayhead` needs an invariant about each point of
`acquire_snapshot`: an acknowledged version is backed by a stored position at
least as recent, and the position of a quantum that is about to be published stems
from the seek it saw or a later one. `LoopIsKept` rests on a lemma about `Advanced`,
for every loop, position and quantum length.

*TrackBuffers.* Both threads may swap the buffers: the control thread at the end of
a call, the RT thread in a flush. As long as no call began beside an unanswered flush
(the history `overlap`), a call in progress implies that the two flush generations are equal, and
a clear in progress that they differ; so the two exclude each other, the active
index stands still while either works on the other buffer, and what is swapped in
is complete. The invariant states these four facts with the contents of the
buffers. What happens with `overlap`, when a caller of `request_event_flush` does not
wait, is left open by all three properties.

*EventIngress.* The first half of the module is arithmetic: what `Slot` and the
difference of two wrapping indices are, with a modulus that is a multiple of the capacity. It ends in three
facts about `Contents`: filling the free slot changes nothing, publishing appends, popping
takes the head. With these, every action is one of `EventFifo`'s or a stutter, and the
other properties speak of `Contents` alone. `FlushLeavesNothingOld` needs the handshake: each
event knows how many flushes had been requested when it was scheduled, none is scheduled while
the control thread waits, and once RT has drained the ring, what is in it is at least as new as the request RT
is about to acknowledge. `SortedUntilSought` needs that, while the ring holds events, the producer's order check
has not been reset and knows a position at or behind the newest.

*Audition.* `LatestCallSounds` is about two threads that share four atomics without an order between
them. Its invariant follows a press through a quantum (`PairInv`): when no younger press has begun,
what RT loaded after a fresh trigger is that press's pitch, then its velocity. Voices enter by their ages,
which differ among those that hold a note (`AgesDiffer`), so that the voice a press gets is the
youngest, stolen or not, whether the song's NoteOn comes before it or after (`SongKeeps`). The envelope steps only have to keep a held voice's id, age and sound.

*Playback.* `WalkFollowsTimeline` is arithmetic on one state: with a word longer than any
distance on the timeline, `(LoopEnd - position) % Word` is the distance to the seam when the playhead is
before it, and negative by less than a word when it is behind, and then the first segment is empty and the
offsets of the second come out right after wrapping twice. Both cases are compared with `Visit`. The metronome
goes from samples to ticks and back: a beat whose sample lies in a window is at most one beat outside the rounded
tick range, which is the range `check_beats` looks at (`WindowHasBeats`); this needs the assumption that a
beat is a sample or more, which 400 bpm at any sample rate keeps by far. The invariant behind both is
that the engine's track is the compiled project, as much of it as fits (`TrackInv`); all of it unless spoiled
(`TrackIsCompiled`). Behind the loop's end, the metronome's window is split where the playhead goes on: what
lies before is `Skipped` (`SkippedBeats`). `SoundsAsWritten` adds that no two clips,
present or deleted, and no two notes share an id (`IdInv`), so that different repetitions of notes have different ids in the track; and that,
unless spoiled, the voices hold exactly the ids of what sounds, each of which is a note of the project whose end is ahead of the playhead
(`SoundInv`). The samples of a quantum are then followed one by one, NoteOff before NoteOn, which is how the
voices take them in whatever order the ties are sorted, as long as none is stolen (`PlayedIsSustained`, by induction on the events of the
block; `SustainedById` says it of each id): the NoteOff
of one note silences no other, and an edit, a seek or a loop that takes away an end that was ahead spoils the note by
definition, so what is left is that all others keep theirs.

*Session.* `AutosavedWorkSurvives` and `CleanMeansSaved` are kept together by `WorkInv`: while
work is owed, a start's recovery dialog stands between it and the window, and a file can be opened over
unsaved work only once it was waived. `OnlyDiscardLosesWork` is an action property: each action either
keeps the document, or saves it first, or needs `waived`.

*EditHistory.* `IdsStayUnique` is an invariant of everything that names a note: the notes, both stacks and an open
batch, a drag's notes and a gesture's velocities all have ids below the next id (`HistoryInv`, `DragInv`,
`VelocityInv`), which only grows until another clip is opened, with an empty history. `NotesStayValid` has the hypothesis
`NoneShort`: no note of an opened clip and no clicked note is shorter than the shortest drag. That is the negation
of what `short_note` needs to go wrong, so the theorem says that nothing else does: what a drag starts from and what every
part of every command restores is valid, hence what undo and redo write is accepted, and the bounds of a
drag at the start of a note are in order. A command is followed part by part (`Steps`, `Path`: a sequence of
partial functions has a path from each value, by induction on its length with the least number that fails).

`EditsMakeATimeline` needs more than the documents that `Docs` computes from the two stacks: it needs that a command leads
*both* ways between its two documents. So the invariant says that there is a line of documents which the commands of both stacks link,
each to the next (`Line`, `Links`), and on which `Settled` is where the document is now; *alike* is up to the
release velocity, which `VelocityCommand` does not keep. `Docs` is that line as it is heard (`WalkHeard`). An
edit cuts the line and extends it (`LineGrows`); undo and redo only move along it (`LineUndone`, `LineRedone`). A gesture
that nothing has interrupted knows what its notes were (`GestureInv`): a created note is still there, an erase's batch links
the document before it to the notes, all notes of a drag are there, and what a velocity gesture set is what the notes have. So
its steps leave `Settled` alike, and the command of its release links `Settled` to the next document. The hypothesis `NoneShort` is needed because
a command that gives a note its old length back is refused when that length is shorter than the shortest one.

*Arrangement.* Every project is *sound*: ids differ, and are below the next ones, and a clip lies on a track and a
pattern that exist (`Sound`). Hence `Loaded` puts back one item after the other and `ProjectReopens` follows. For `UndoneLeadsBack`
the invariant says of the history `docs` what the property says only of its end: each edit on the undo stack leads from its document to the
next, each one on the redo stack as well (`Leads`, one case per command), and every document is sound, with ids below the next ones of the project
(`DocsInv`). On such documents the two closures of an edit are inverse: the deleted track
comes back to a document that has none with its id, and its clips find it there. An import adds items with new ids to every document at once, and no edit knows
these; it may do so because a file that is imported has at least one track (`ArrangementAssumption`, `midi_import.cpp:279`).

*Endpoint.* `EverySinkLinked` holds only when the queue of registry events is empty; the invariant says what is
true while it is not: for every port that exists, the last announcement for its node and channel, first
in the queue and then among the candidates, carries its id (`ReportInv`). What those candidates want is in
`linked_pairs`; and a pair in there whose port is plugged in, under an id not given out again, is
a link or has failed to become one (`LinkInv`), because a port that was not plugged in when it was tried must have been
announced before it came back. That plugged sinks share no ports is needed when one of them goes.

The assumptions. Counters, capacities and sizes are naturals of which some are not zero; the index
modulus is a multiple of the capacity, as 2^64 is of a power of two (`RingAssumption`). A beat
is at least one sample and two ticks long (`TimeAssumption`), `Word` exceeds every distance on the timeline
(`WordAssumption`), a quantum has at least one frame and less than a word (`FramesAssumption`); blocks, tracks and
the synth have room for one at least (`CapacityAssumption`). Projects have the types of
`project.hpp` (`ProjectsAssumption`), and their clips and notes different ids below the next one, as `add_clip` and
`add_note` keep them (`IdsAssumption`); the same holds of the documents that a clip may hold (`OpenedAssumption`). What the user can drop and
import has no negative times and no empty lengths (`ArrangementAssumption`). `PathsAssumption` and `ContentAssumption` say that the recovery
file is not a project file by name, and which contents can be opened. `EndpointAssumption` says that port ids are not 0, which
`try_link` takes for *none*, and that the program's own are no sink's. TLC evaluates each of them on the
instances of section 3.

Only model-checked, and why:

- *liveness* (`EventuallyReclaimed`, `EverySeekLands`, `FlushAnswered`, `StopSilencesSong`,
  `ReleaseSilencesUnlessClicked`, `StopReturns`): fairness is out of the prover's reach;
- `MidiImport!NotesFollowFile`: both its sides, the queue of strikes and the count of them, are folds and filters
  of a sequence (`SelectSeq`, `FlattenSeq`, `Cardinality`), which the provers cannot unfold.

## 5. What is not modelled, and the plan

- *Floating point*: oscillators, filters, gain, pan, meters and telemetry; nothing the
  properties mention depends on them. The tempo conversions are modelled over exact
  fractions: what a `double` adds to their rounding is left out.
- *Formats*: the JSON of `ProjectFile`, and the bytes of MIDI files with names and tempo. What becomes of a project on its way through a file, and of an import in
  the editor, is modelled.
- *ProjectExporter* renders offline with the same parts; that it runs the event loop
  meanwhile is in `Session`.
- *GraphCompiler*: a pure function that the program only calls with one graph, a synth, two
  gains and the output, with nothing in it to choose. The graphs it refuses are made by its tests alone.
- *Data race on the tempo*: `set_bpm` (`transport.hpp:75`) writes plain memory the
  metronome reads. A quantum is one step in `Playback`, so this race is not in it.
- *Shutdown variants*: `start` is modelled as `main` calls it, once.
- *Views*: drawing, hit testing, marquee selection, piano keys, the selection of clips and
  tracks, QML apart from the dialogs.
- *OfflineEndpoint, AudioBuffer, allocation guard*: a loop over `process`, memory layout, a debugging aid.
- *Lanes and mixer values*: every pattern the program makes has one lane; of the mixer only mute and
  solo decide anything.

What would come next: the pairing of `MidiImport` against its count, once the queue is described without
filters of sequences; the rounding of `double` in the tempo conversions.
