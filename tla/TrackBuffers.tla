--------------------------- MODULE TrackBuffers --------------------------
(***************************************************************************)
(* The compiled song: two track buffers, of which AudioEngine's realtime   *)
(* (RT) thread plays the active one while the control thread fills the     *)
(* other and swaps them (set_track_events), and of which a flush has the   *)
(* RT thread itself empty one and swap (clear_track_events).               *)
(*                                                                         *)
(* active_track_idx_ and the two flush generations are the atomics.  The   *)
(* buffers are plain memory: the RT thread loads the index once a quantum  *)
(* and reads slot by slot, the control thread writes slot by slot, and     *)
(* nothing tells the writer that the reader is done.  The events of a      *)
(* track are named by the call that set it.                                *)
(***************************************************************************)
EXTENDS Naturals

CONSTANTS
  MaxEvents,    \* slots of a buffer (32768)
  MaxSets,      \* bound: calls of set_track_events
  MaxFlush      \* bound: flushes requested

ASSUME EventsAssumption == MaxEvents \in Nat
ASSUME CallsAssumption == MaxSets \in Nat /\ MaxFlush \in Nat

Buffer == {0, 1}
Call == 0 .. MaxSets            \* 0: no track was set, or it was cleared
Size == 0 .. MaxEvents

VARIABLES
  active_track_idx, events, count,            \* shared with the RT thread
  flush_requested, flush_acknowledged,
  ctl, inactive_idx, n, copied, sets, waiting_for,  \* the control thread
  rt, clear_idx, track_idx, next, req, seen,  \* the RT thread
  track,        \* history: the call and size of the track last swapped in
  republished,  \* history: a swap by set_track_events since RT's load
  overlap       \* history: a set began with a flush unanswered

buffers == <<events, count>>
flush == <<flush_requested, flush_acknowledged>>
ctlvars == <<ctl, inactive_idx, n, copied, sets, waiting_for, overlap>>
rtvars == <<rt, clear_idx, track_idx, next, req, seen>>
vars == <<active_track_idx, buffers, flush, ctlvars, rtvars, track, republished>>

Init ==
  /\ active_track_idx = 0
  /\ events = [b \in Buffer |-> [i \in 1 .. MaxEvents |-> 0]]
  /\ count = [b \in Buffer |-> 0]
  /\ flush_requested = 0
  /\ flush_acknowledged = 0
  /\ ctl = "idle"
  /\ inactive_idx = 0
  /\ n = 0
  /\ copied = 0
  /\ sets = 0
  /\ waiting_for = 0
  /\ rt = "idle"
  /\ clear_idx = 0
  /\ track_idx = 0
  /\ next = 0
  /\ req = 0
  /\ seen = {}
  /\ track = <<0, 0>>
  /\ republished = FALSE
  /\ overlap = FALSE

FlushPending == flush_requested > flush_acknowledged

\* A faulty variant: the buffer that is playing.
OtherSame(idx) == idx

Other(idx) == 1 - idx

-----------------------------------------------------------------------------
(* The control thread: set_track_events() *)

SetBegin(size) ==
  /\ ctl = "idle"
  /\ sets < MaxSets
  /\ sets' = sets + 1
  /\ inactive_idx' = Other(active_track_idx)
  /\ n' = size
  /\ copied' = 0
  /\ overlap' = (overlap \/ FlushPending)
  /\ ctl' = "copying"
  /\ UNCHANGED <<active_track_idx, buffers, flush, waiting_for, rtvars, track,
                 republished>>

\* A faulty variant: one slot too many.
SetCopyPastEnd ==
  /\ ctl = "copying"
  /\ copied <= n
  /\ events' = [events EXCEPT ![inactive_idx][copied + 1] = sets]
  /\ copied' = copied + 1
  /\ UNCHANGED <<active_track_idx, count, flush, ctl, inactive_idx, n, sets,
                 waiting_for, overlap, rtvars, track, republished>>

SetCopy ==
  /\ ctl = "copying"
  /\ copied < n
  /\ events' = [events EXCEPT ![inactive_idx][copied + 1] = sets]
  /\ copied' = copied + 1
  /\ UNCHANGED <<active_track_idx, count, flush, ctl, inactive_idx, n, sets,
                 waiting_for, overlap, rtvars, track, republished>>

\* A faulty variant: the count only grows.
SetCountGrows ==
  /\ ctl = "copying"
  /\ copied = n
  /\ count' = [count EXCEPT ![inactive_idx] = IF n > @ THEN n ELSE @]
  /\ ctl' = "sorting"
  /\ UNCHANGED <<active_track_idx, events, flush, inactive_idx, n, copied, sets,
                 waiting_for, overlap, rtvars, track, republished>>

SetCount ==
  /\ ctl = "copying"
  /\ copied = n
  /\ count' = [count EXCEPT ![inactive_idx] = n]
  /\ ctl' = "sorting"
  /\ UNCHANGED <<active_track_idx, events, flush, inactive_idx, n, copied, sets,
                 waiting_for, overlap, rtvars, track, republished>>

\* std::sort has moved the events about in the slots; then the swap.
SetPublish ==
  /\ ctl = "sorting"
  /\ active_track_idx' = inactive_idx
  /\ track' = <<sets, n>>
  /\ republished' = TRUE
  /\ inactive_idx' = 0                        \* the locals go out of scope
  /\ n' = 0
  /\ copied' = 0
  /\ ctl' = "idle"
  /\ UNCHANGED <<buffers, flush, sets, waiting_for, overlap, rtvars>>

-----------------------------------------------------------------------------
(* The control thread: flush_events(), or request_event_flush() alone *)

FlushRequest ==
  /\ ctl = "idle"
  /\ flush_requested < MaxFlush
  /\ flush_requested' = flush_requested + 1
  /\ waiting_for' = flush_requested + 1
  /\ ctl' = "waiting"
  /\ UNCHANGED <<active_track_idx, buffers, flush_acknowledged, inactive_idx, n,
                 copied, sets, overlap, rtvars, track, republished>>

\* The flush is answered, or the wait times out, or there was none.
FlushReturn ==
  /\ ctl = "waiting"
  /\ waiting_for' = 0
  /\ ctl' = "idle"
  /\ UNCHANGED <<active_track_idx, buffers, flush, inactive_idx, n, copied, sets,
                 overlap, rtvars, track, republished>>

-----------------------------------------------------------------------------
(* The realtime thread: one quantum of process() *)

RtBegin ==
  /\ rt = "idle"
  /\ req' = flush_requested
  /\ rt' = IF FlushPending THEN "clearing" ELSE "flushed"
  /\ UNCHANGED <<active_track_idx, buffers, flush, ctlvars, clear_idx, track_idx,
                 next, seen, track, republished>>

RtClearLoad ==                                \* clear_track_events()
  /\ rt = "clearing"
  /\ clear_idx' = Other(active_track_idx)
  /\ rt' = "idx_loaded"
  /\ UNCHANGED <<active_track_idx, buffers, flush, ctlvars, track_idx, next, req,
                 seen, track, republished>>

\* A faulty variant: the buffer swapped out is emptied, not the one swapped in.
RtClearCountOther ==
  /\ rt = "idx_loaded"
  /\ count' = [count EXCEPT ![Other(clear_idx)] = 0]
  /\ rt' = "cleared"
  /\ UNCHANGED <<active_track_idx, events, flush, ctlvars, clear_idx, track_idx,
                 next, req, seen, track, republished>>

RtClearCount ==
  /\ rt = "idx_loaded"
  /\ count' = [count EXCEPT ![clear_idx] = 0]
  /\ rt' = "cleared"
  /\ UNCHANGED <<active_track_idx, events, flush, ctlvars, clear_idx, track_idx,
                 next, req, seen, track, republished>>

RtClearStore ==
  /\ rt = "cleared"
  /\ active_track_idx' = clear_idx
  /\ track' = <<0, 0>>
  /\ clear_idx' = 0
  /\ rt' = "swapped"
  /\ UNCHANGED <<buffers, flush, ctlvars, track_idx, next, req, seen, republished>>

RtFlushAck ==
  /\ rt = "swapped"
  /\ flush_acknowledged' = req
  /\ rt' = "flushed"
  /\ UNCHANGED <<active_track_idx, buffers, flush_requested, ctlvars, clear_idx,
                 track_idx, next, req, seen, track, republished>>

RtStopped ==                                  \* a stopped transport: no track
  /\ rt = "flushed"
  /\ req' = 0
  /\ rt' = "idle"
  /\ UNCHANGED <<active_track_idx, buffers, flush, ctlvars, clear_idx, track_idx,
                 next, seen, track, republished>>

RtLoadTrack ==                                \* track_buf
  /\ rt = "flushed"
  /\ track_idx' = active_track_idx
  /\ next' = 1
  /\ seen' = {}
  /\ republished' = FALSE
  /\ rt' = "reading"
  /\ UNCHANGED <<active_track_idx, buffers, flush, ctlvars, clear_idx, req, track>>

\* The loop loads the count anew for every slot.
RtReadEvent ==
  /\ rt = "reading"
  /\ next <= count[track_idx]
  /\ seen' = seen \union {events[track_idx][next]}
  /\ next' = next + 1
  /\ UNCHANGED <<active_track_idx, buffers, flush, ctlvars, rt, clear_idx,
                 track_idx, req, track, republished>>

RtEnd ==
  /\ rt = "reading"
  /\ next > count[track_idx]
  /\ track_idx' = 0                           \* the locals go out of scope
  /\ next' = 0
  /\ req' = 0
  /\ seen' = {}
  /\ republished' = FALSE
  /\ rt' = "idle"
  /\ UNCHANGED <<active_track_idx, buffers, flush, ctlvars, clear_idx, track>>

-----------------------------------------------------------------------------

Control ==
  \/ \E size \in Size : SetBegin(size)
  \/ SetCopy
  \/ SetCount
  \/ SetPublish
  \/ FlushRequest
  \/ FlushReturn

Realtime ==
  \/ RtBegin
  \/ RtClearLoad
  \/ RtClearCount
  \/ RtClearStore
  \/ RtFlushAck
  \/ RtStopped
  \/ RtLoadTrack
  \/ RtReadEvent
  \/ RtEnd

Next == Control \/ Realtime

Spec == Init /\ [][Next]_vars

-----------------------------------------------------------------------------
(* Properties *)

TypeOK ==
  /\ active_track_idx \in Buffer
  /\ events \in [Buffer -> [1 .. MaxEvents -> Call]]
  /\ count \in [Buffer -> Size]
  /\ flush_requested \in 0 .. MaxFlush
  /\ flush_acknowledged \in 0 .. MaxFlush
  /\ ctl \in {"idle", "copying", "sorting", "waiting"}
  /\ inactive_idx \in Buffer
  /\ n \in Size
  /\ copied \in 0 .. n
  /\ sets \in Call
  /\ waiting_for \in 0 .. MaxFlush
  /\ rt \in {"idle", "clearing", "idx_loaded", "cleared", "swapped", "flushed",
             "reading"}
  /\ clear_idx \in Buffer
  /\ track_idx \in Buffer
  /\ next \in 0 .. MaxEvents + 1
  /\ req \in 0 .. MaxFlush
  /\ seen \subseteq Call
  /\ track \in Call \X Size
  /\ republished \in BOOLEAN
  /\ overlap \in BOOLEAN

Writing == ctl \in {"copying", "sorting"}

\* The buffer set_track_events writes is the one a quantum reads only if
\* another set_track_events ended since the quantum loaded the index: one call
\* in a quantum is safe, whichever buffers earlier calls and flushes left.
WriterOffReader ==
  ~overlap /\ rt = "reading" /\ Writing /\ inactive_idx = track_idx
    => republished

\* A quantum in which no set_track_events ends plays events of one track, the
\* last that was set: none that an older, longer track left in the buffer and
\* none of the track being written.
QuantumPlaysOneTrack ==
  ~overlap /\ rt = "reading" /\ ~republished => seen \subseteq {track[1]}

\* Between calls and quanta the active buffer holds the whole track that was
\* set last, or nothing if a flush was answered since.
LastTrackPlays ==
  ~overlap /\ ctl = "idle" /\ rt \in {"idle", "flushed"}
    => /\ count[active_track_idx] = track[2]
       /\ \A i \in 1 .. track[2] : events[active_track_idx][i] = track[1]
=============================================================================
