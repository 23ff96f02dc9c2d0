-------------------------- MODULE EventIngress ---------------------------
(***************************************************************************)
(* How timeline events reach the realtime (RT) thread: the lock-free ring  *)
(* SpscEventQueue, the part of AudioEngine::process that drains it into a  *)
(* quantum, and the flush handshake by which the control thread has the RT *)
(* thread empty it.                                                        *)
(*                                                                         *)
(* One control thread produces, one RT thread consumes.  Each access to an *)
(* atomic that both use is a step; copying an event into or out of a slot  *)
(* is not atomic and lasts from one state ("filling", "copying") to the    *)
(* next.  The transport appears as what process() sees of it: the position *)
(* the quantum starts from and a seek that waits to be taken.              *)
(***************************************************************************)
EXTENDS Integers, Sequences

CONSTANTS
  Capacity,     \* slots of the ring, a power of two (2048)
  Modulus,      \* the indices are counted modulo this power of two (2^64)
  Quantum,      \* frames of a quantum
  MaxPos,       \* bound: the modelled timeline is 0 .. MaxPos
  MaxFlush      \* bound: how many flushes are requested

ASSUME RingAssumption ==
  /\ Capacity \in Nat \ {0}
  /\ Modulus \in Nat
  /\ Modulus > Capacity
  /\ Modulus % Capacity = 0
ASSUME TimelineAssumption == Quantum \in Nat \ {0} /\ MaxPos \in Nat
ASSUME FlushAssumption == MaxFlush \in Nat

Position == 0 .. MaxPos
Request == 0 .. MaxFlush

\* An event is known by its position and, for the properties, by how many
\* flushes had been requested when it was scheduled.
Event == [pos : Position, flushes : Request]
NoEvent == [pos |-> -1, flushes |-> 0]
NoSeek == -1

VARIABLES
  write_index, read_index, buffer,            \* the ring
  last_scheduled_sample, has_scheduled_events,\* the producer's order check
  flush_requested, flush_acknowledged,        \* the handshake
  ctl, event, waiting_for,                    \* the control thread's locals
  rt, flush_req, start_pos, snap_playing,     \* the RT thread's locals
  playing, position, seek_to,                 \* the transport, as seen from here
  sought                                      \* history: a seek met a filled ring

ring == <<write_index, read_index, buffer>>
tracking == <<last_scheduled_sample, has_scheduled_events>>
handshake == <<flush_requested, flush_acknowledged>>
transport == <<playing, position, seek_to>>
ctlvars == <<ctl, event, waiting_for, tracking, sought>>
quantum == <<flush_req, start_pos, snap_playing>>
rtvars == <<rt, flush_req, start_pos, snap_playing>>
vars == <<ring, handshake, ctlvars, rtvars, transport>>

\* A faulty variant: the mask is one bit short.
SlotShortMask(i) == i % (Capacity - 1)

Slot(i) == i % Capacity                       \* i & kMask
\* A faulty variant: the index is not wrapped.
NextIndexUnwrapped(i) == i + 1

NextIndex(i) == (i + 1) % Modulus
Size == (write_index - read_index) % Modulus  \* w - r in unsigned arithmetic

\* The events in the ring, oldest first.
Contents == [k \in 1 .. Size |-> buffer[Slot((read_index + k - 1) % Modulus)]]

Init ==
  /\ write_index = 0
  /\ read_index = 0
  /\ buffer = [s \in 0 .. Capacity - 1 |-> NoEvent]
  /\ last_scheduled_sample = 0
  /\ has_scheduled_events = FALSE
  /\ flush_requested = 0
  /\ flush_acknowledged = 0
  /\ ctl = "idle"
  /\ event = NoEvent
  /\ waiting_for = 0
  /\ rt = "idle"
  /\ flush_req = 0
  /\ start_pos = 0
  /\ snap_playing = FALSE
  /\ playing = FALSE
  /\ position = 0
  /\ seek_to = NoSeek
  /\ sought = FALSE

-----------------------------------------------------------------------------
(* The control thread: schedule_event() *)

InOrder(pos) == has_scheduled_events => pos >= last_scheduled_sample
\* A faulty variant: off by one.
FullOffByOne == Size > Capacity

Full == Size >= Capacity

\* An event out of order and one that finds the ring full are counted and
\* dropped, which changes nothing here; any other starts to fill its slot.
ScheduleCheck(pos) ==
  /\ ctl = "idle"
  /\ InOrder(pos)
  /\ ~Full
  /\ event' = [pos |-> pos, flushes |-> flush_requested]
  /\ ctl' = "filling"
  /\ UNCHANGED <<ring, handshake, waiting_for, tracking, sought, rtvars, transport>>

ScheduleFill ==
  /\ ctl = "filling"
  /\ buffer' = [buffer EXCEPT ![Slot(write_index)] = event]
  /\ ctl' = "filled"
  /\ UNCHANGED <<write_index, read_index, handshake, event, waiting_for,
                 tracking, sought, rtvars, transport>>

SchedulePublish ==
  /\ ctl = "filled"
  /\ write_index' = NextIndex(write_index)
  /\ last_scheduled_sample' = event.pos
  /\ has_scheduled_events' = TRUE
  /\ event' = NoEvent
  /\ ctl' = "idle"
  /\ UNCHANGED <<read_index, buffer, handshake, waiting_for, sought, rtvars,
                 transport>>

-----------------------------------------------------------------------------
(* The control thread: flush_events() and the transport *)

FlushRequest ==                             \* request_event_flush()
  /\ ctl = "idle"
  /\ flush_requested < MaxFlush
  /\ flush_requested' = flush_requested + 1
  /\ waiting_for' = flush_requested + 1
  /\ ctl' = "waiting"
  /\ UNCHANGED <<ring, flush_acknowledged, event, tracking, sought, rtvars,
                 transport>>

FlushDone ==                                \* wait_for_flush() saw the answer
  /\ ctl = "waiting"
  /\ flush_acknowledged >= waiting_for
  /\ last_scheduled_sample' = 0             \* reset_schedule_tracking(0)
  /\ has_scheduled_events' = FALSE
  /\ sought' = FALSE
  /\ waiting_for' = 0
  /\ ctl' = "idle"
  /\ UNCHANGED <<ring, handshake, event, rtvars, transport>>

\* A faulty variant: the order check is reset although the ring is not flushed.
FlushTimeoutResets ==
  /\ ctl = "waiting"
  /\ flush_acknowledged < waiting_for
  /\ last_scheduled_sample' = 0
  /\ has_scheduled_events' = FALSE
  /\ waiting_for' = 0
  /\ ctl' = "idle"
  /\ UNCHANGED <<ring, handshake, event, sought, rtvars, transport>>

\* wait_for_flush() ran out of time; so does a caller of request_event_flush
\* that does not wait.
FlushTimeout ==
  /\ ctl = "waiting"
  /\ flush_acknowledged < waiting_for
  /\ waiting_for' = 0
  /\ ctl' = "idle"
  /\ UNCHANGED <<ring, handshake, event, tracking, sought, rtvars, transport>>

SetPlaying(p) ==                            \* play(), stop()
  /\ ctl = "idle"
  /\ playing # p
  /\ playing' = p
  /\ UNCHANGED <<ring, handshake, ctlvars, rtvars, position, seek_to>>

Seek(pos) ==                                \* AudioEngine::seek_samples()
  /\ ctl = "idle"
  /\ seek_to' = pos
  /\ last_scheduled_sample' = pos           \* reset_schedule_tracking(pos)
  /\ has_scheduled_events' = FALSE
  /\ sought' = (sought \/ Size > 0)
  /\ UNCHANGED <<ring, handshake, ctl, event, waiting_for, rtvars, playing,
                 position>>

-----------------------------------------------------------------------------
(* The realtime thread: one quantum of process() *)

RtBegin ==                                  \* the transport snapshot
  /\ rt = "idle"
  /\ start_pos' = IF seek_to = NoSeek THEN position ELSE seek_to
  /\ position' = start_pos'
  /\ seek_to' = NoSeek
  /\ snap_playing' = playing
  /\ rt' = "started"
  /\ UNCHANGED <<ring, handshake, ctlvars, flush_req, playing>>

\* After the handshake the quantum drains the ring if its snapshot plays and
\* leaves it alone if not.
Proceed == IF snap_playing THEN "draining" ELSE "done"

\* A faulty variant: a stopped transport does not flush.
RtLoadFlushPlaying ==
  /\ rt = "started"
  /\ flush_req' = flush_requested
  /\ rt' = IF snap_playing /\ flush_requested > flush_acknowledged
           THEN "flushing" ELSE Proceed
  /\ UNCHANGED <<ring, handshake, ctlvars, start_pos, snap_playing, transport>>

RtLoadFlush ==
  /\ rt = "started"
  /\ flush_req' = flush_requested
  /\ rt' = IF flush_requested > flush_acknowledged THEN "flushing" ELSE Proceed
  /\ UNCHANGED <<ring, handshake, ctlvars, start_pos, snap_playing, transport>>

\* A faulty variant: one event is popped, not all.
RtFlushPopOne ==
  /\ rt = "flushing"
  /\ Size > 0
  /\ read_index' = NextIndex(read_index)
  /\ rt' = "flushed"
  /\ UNCHANGED <<write_index, buffer, handshake, ctlvars, quantum, transport>>

RtFlushPop ==                               \* while (event_queue_.pop()) {}
  /\ rt = "flushing"
  /\ Size > 0
  /\ read_index' = NextIndex(read_index)
  /\ UNCHANGED <<write_index, buffer, handshake, ctlvars, rtvars, transport>>

RtFlushEmpty ==
  /\ rt = "flushing"
  /\ Size = 0
  /\ rt' = "flushed"
  /\ UNCHANGED <<ring, handshake, ctlvars, quantum, transport>>

RtFlushAck ==
  /\ rt = "flushed"
  /\ flush_acknowledged' = flush_req
  /\ rt' = Proceed
  /\ UNCHANGED <<ring, flush_requested, ctlvars, quantum, transport>>

RtPeek ==                                   \* peek() finds an event
  /\ rt = "draining"
  /\ Size > 0
  /\ rt' = "copying"
  /\ UNCHANGED <<ring, handshake, ctlvars, quantum, transport>>

RtPeekEmpty ==
  /\ rt = "draining"
  /\ Size = 0
  /\ rt' = "done"
  /\ UNCHANGED <<ring, handshake, ctlvars, quantum, transport>>

\* The event peek() copied; the slot is the consumer's until it pops.
q_ev == buffer[Slot(read_index)]
EndPos == start_pos + Quantum

\* An event before the block is dropped, one inside is delivered: both pop.
RtTake ==
  /\ rt = "copying"
  /\ q_ev.pos < EndPos
  /\ read_index' = NextIndex(read_index)
  /\ rt' = "draining"
  /\ UNCHANGED <<write_index, buffer, handshake, ctlvars, quantum,
                 transport>>

RtStop ==                                   \* an event behind the block: break
  /\ rt = "copying"
  /\ q_ev.pos >= EndPos
  /\ rt' = "done"
  /\ UNCHANGED <<ring, handshake, ctlvars, quantum, transport>>

\* Rendering, and advance_quantum(): a seek that came meanwhile keeps the
\* position, and so does the bound MaxPos.  The locals go out of scope.
RtEnd ==
  /\ rt = "done"
  /\ position' = IF snap_playing /\ seek_to = NoSeek /\ EndPos <= MaxPos
                 THEN EndPos ELSE position
  /\ rt' = "idle"
  /\ flush_req' = 0
  /\ start_pos' = 0
  /\ snap_playing' = FALSE
  /\ UNCHANGED <<ring, handshake, ctlvars, playing, seek_to>>

-----------------------------------------------------------------------------

Control ==
  \/ \E pos \in Position : ScheduleCheck(pos) \/ Seek(pos)
  \/ ScheduleFill
  \/ SchedulePublish
  \/ FlushRequest
  \/ FlushDone
  \/ FlushTimeout
  \/ \E p \in BOOLEAN : SetPlaying(p)

Realtime ==
  \/ RtBegin
  \/ RtLoadFlush
  \/ RtFlushPop
  \/ RtFlushEmpty
  \/ RtFlushAck
  \/ RtPeek
  \/ RtPeekEmpty
  \/ RtTake
  \/ RtStop
  \/ RtEnd

Next == Control \/ Realtime

Spec == Init /\ [][Next]_vars

\* The audio host keeps asking for quanta, and no step of one blocks.
FairSpec == Spec /\ WF_vars(Realtime)

-----------------------------------------------------------------------------
(* Properties *)

TypeOK ==
  /\ write_index \in 0 .. Modulus - 1
  /\ read_index \in 0 .. Modulus - 1
  /\ buffer \in [0 .. Capacity - 1 -> Event \union {NoEvent}]
  /\ last_scheduled_sample \in Position
  /\ has_scheduled_events \in BOOLEAN
  /\ flush_requested \in Request
  /\ flush_acknowledged \in Request
  /\ ctl \in {"idle", "filling", "filled", "waiting"}
  /\ event \in Event \union {NoEvent}
  /\ waiting_for \in Request
  /\ rt \in {"idle", "started", "flushing", "flushed", "draining", "copying",
             "done"}
  /\ flush_req \in Request
  /\ start_pos \in Position
  /\ snap_playing \in BOOLEAN
  /\ playing \in BOOLEAN
  /\ position \in Position
  /\ seek_to \in Position \union {NoSeek}
  /\ sought \in BOOLEAN

\* The producer never fills the slot the consumer is copying from, also when
\* the ring is full and when the indices have wrapped.
NoSlotRace ==
  ctl \in {"filling", "filled"} /\ rt = "copying"
    => Slot(write_index) # Slot(read_index)

\* Once a flush is acknowledged, no event from before its request is left:
\* none can reach a quantum afterwards, also when the control thread gave up
\* waiting and went on.
FlushLeavesNothingOld ==
  \A k \in 1 .. Size : Contents[k].flushes >= flush_acknowledged

\* The order check of the producer keeps the ring sorted, though it forgets
\* the last event at each flush and each seek: a flush that is answered has
\* emptied the ring.  Only a seek over a filled ring breaks the order.
SortedUntilSought ==
  ~sought => \A k \in 1 .. Size - 1 : Contents[k].pos <= Contents[k + 1].pos

\* A control thread that waits for a flush and does not give up is answered.
FlushAnswered ==
  ctl = "waiting" ~> (ctl # "waiting" \/ flush_acknowledged >= waiting_for)

\* The ring is a bounded queue.
Fifo == INSTANCE EventFifo WITH queue <- Contents

ImplementsFifo == Fifo!Spec
=============================================================================
