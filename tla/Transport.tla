---------------------------- MODULE Transport ----------------------------
(***************************************************************************)
(* TransportController: the control thread commands and asks for the       *)
(* position, the realtime (RT) thread takes a snapshot at the start of     *)
(* each quantum and moves the position at its end.                         *)
(*                                                                         *)
(* Each access to an atomic that both threads use is a step of its own,    *)
(* with two exceptions that no property can tell apart: the loads of the   *)
(* play flag, the loop flag and the loop start are one step, and a load of *)
(* a variable that only the loading thread writes is part of the next      *)
(* step.  Positions are samples.  What a position stems from is a history: *)
(* origin n means "the n-th seek, or reached by playing from there", and 0 *)
(* the start of the program.  rt_playing_ is stored and never read, and is *)
(* left out; beats are converted before they reach the atomics.            *)
(***************************************************************************)
EXTENDS Integers

CONSTANTS
  Frames,         \* quantum sizes the host uses
  SeekRequests,   \* positions asked of seek_samples, negative ones included
  LoopRequests,   \* pairs <<start, end>> asked of set_loop_range_samples
  MaxSeeks,       \* bound: how many seeks are asked
  MaxPos          \* bound: the modelled timeline is 0 .. MaxPos

ASSUME FramesAssumption == Frames \subseteq Nat \ {0}
ASSUME RequestAssumption == /\ SeekRequests \subseteq Int
                            /\ LoopRequests \subseteq Int \X Int
ASSUME BoundAssumption == MaxSeeks \in Nat /\ MaxPos \in Nat

VARIABLES
  \* control to RT atomics
  playing_requested, seek_target, seek_version,
  loop_enabled_requested, loop_start_requested, loop_end_requested,
  \* RT to control atomics
  acknowledged_seek_version, rt_position,
  \* RT locals
  rt_current_sample, last_seen_seek_version, snapshotted_seek_version,
  active_snapshot,
  \* where each thread is in its call, and the loop end still to be stored
  rt, ctl, pending_end,
  \* history
  cur_origin, pos_origin

requests == <<playing_requested, seek_target, seek_version,
              loop_enabled_requested, loop_start_requested, loop_end_requested>>
replies == <<acknowledged_seek_version, rt_position, pos_origin>>
locals == <<rt_current_sample, last_seen_seek_version,
            snapshotted_seek_version, active_snapshot, cur_origin>>
rtvars == <<replies, locals, rt>>
ctlvars == <<requests, ctl, pending_end>>
vars == <<rtvars, ctlvars>>

\* A faulty variant: no bound.
AtLeastUnbounded(low, x) == x

AtLeast(low, x) == IF x < low THEN low ELSE x

\* The seek that wrote the target: the store precedes the version.
TargetOrigin == IF ctl = "seeking" THEN seek_version + 1 ELSE seek_version

Stopped == [playing |-> FALSE, loop_enabled |-> FALSE,
            loop_start |-> 0, loop_end |-> 0]

Init ==
  /\ playing_requested = FALSE
  /\ seek_target = 0
  /\ seek_version = 0
  /\ loop_enabled_requested = FALSE
  /\ loop_start_requested = 0
  /\ loop_end_requested = 0
  /\ acknowledged_seek_version = 0
  /\ rt_position = 0
  /\ rt_current_sample = 0
  /\ last_seen_seek_version = 0
  /\ snapshotted_seek_version = 0
  /\ active_snapshot = Stopped
  /\ rt = "idle"
  /\ ctl = "idle"
  /\ pending_end = 0
  /\ cur_origin = 0
  /\ pos_origin = 0

-----------------------------------------------------------------------------
(* The control thread *)

SetPlaying(p) ==                                  \* play(), stop()
  /\ ctl = "idle"
  /\ playing_requested' = p
  /\ UNCHANGED <<rtvars, seek_target, seek_version, loop_enabled_requested,
                 loop_start_requested, loop_end_requested, ctl, pending_end>>

SetLoopEnabled(e) ==
  /\ ctl = "idle"
  /\ loop_enabled_requested' = e
  /\ UNCHANGED <<rtvars, playing_requested, seek_target, seek_version,
                 loop_start_requested, loop_end_requested, ctl, pending_end>>

SeekStoreTarget(pos) ==                           \* seek_samples(): the target
  /\ ctl = "idle"
  /\ seek_version < MaxSeeks
  /\ seek_target' = AtLeast(0, pos)
  /\ ctl' = "seeking"
  /\ UNCHANGED <<rtvars, playing_requested, seek_version, loop_enabled_requested,
                 loop_start_requested, loop_end_requested, pending_end>>

SeekBumpVersion ==                                \* seek_samples(): the version
  /\ ctl = "seeking"
  /\ seek_version' = seek_version + 1
  /\ ctl' = "idle"
  /\ UNCHANGED <<rtvars, playing_requested, seek_target, loop_enabled_requested,
                 loop_start_requested, loop_end_requested, pending_end>>

LoopStoreStart(range) ==                          \* set_loop_range_samples()
  LET start == AtLeast(0, range[1]) IN
  /\ ctl = "idle"
  /\ loop_start_requested' = start
  /\ pending_end' = AtLeast(start, range[2])
  /\ ctl' = "looping"
  /\ UNCHANGED <<rtvars, playing_requested, seek_target, seek_version,
                 loop_enabled_requested, loop_end_requested>>

LoopStoreEnd ==
  /\ ctl = "looping"
  /\ loop_end_requested' = pending_end
  /\ pending_end' = 0
  /\ ctl' = "idle"
  /\ UNCHANGED <<rtvars, playing_requested, seek_target, seek_version,
                 loop_enabled_requested, loop_start_requested>>

\* current_sample(): with a seek pending the answer is the target, which this
\* thread wrote itself; otherwise the position is loaded in a second step.
QueryVersions ==
  /\ ctl = "idle"
  /\ acknowledged_seek_version = seek_version
  /\ ctl' = "querying"
  /\ UNCHANGED <<rtvars, requests, pending_end>>

QueryPosition ==
  /\ ctl = "querying"
  /\ ctl' = "idle"
  /\ UNCHANGED <<rtvars, requests, pending_end>>

-----------------------------------------------------------------------------
(* The realtime thread: acquire_snapshot() *)

\* A faulty variant: a seek only counts while the transport plays.
RtLoadVersionPlaying ==
  /\ rt = "idle"
  /\ last_seen_seek_version' = seek_version
  /\ rt' = IF seek_version # last_seen_seek_version /\ active_snapshot.playing
           THEN "seeking" ELSE "reading"
  /\ UNCHANGED <<ctlvars, replies, rt_current_sample, snapshotted_seek_version,
                 active_snapshot, cur_origin>>

RtLoadVersion ==
  /\ rt = "idle"
  /\ last_seen_seek_version' = seek_version
  /\ rt' = IF seek_version # last_seen_seek_version THEN "seeking" ELSE "reading"
  /\ UNCHANGED <<ctlvars, replies, rt_current_sample, snapshotted_seek_version,
                 active_snapshot, cur_origin>>

\* A faulty variant: the seek is acknowledged before the position is stored.
RtTakeTargetAck ==
  /\ rt = "seeking"
  /\ rt_current_sample' = seek_target
  /\ cur_origin' = TargetOrigin
  /\ acknowledged_seek_version' = last_seen_seek_version
  /\ rt' = "moved"
  /\ UNCHANGED <<ctlvars, rt_position, pos_origin, last_seen_seek_version,
                 snapshotted_seek_version, active_snapshot>>

RtTakeTarget ==
  /\ rt = "seeking"
  /\ rt_current_sample' = seek_target
  /\ cur_origin' = TargetOrigin
  /\ rt' = "moved"
  /\ UNCHANGED <<ctlvars, replies, last_seen_seek_version,
                 snapshotted_seek_version, active_snapshot>>

RtStorePosition ==
  /\ rt = "moved"
  /\ rt_position' = rt_current_sample
  /\ pos_origin' = cur_origin
  /\ rt' = "stored"
  /\ UNCHANGED <<ctlvars, locals, acknowledged_seek_version>>

RtAckSeek ==
  /\ rt = "stored"
  /\ acknowledged_seek_version' = last_seen_seek_version
  /\ rt' = "reading"
  /\ UNCHANGED <<ctlvars, locals, rt_position, pos_origin>>

RtReadStart ==
  /\ rt = "reading"
  /\ active_snapshot' = [playing |-> playing_requested,
                         loop_enabled |-> loop_enabled_requested,
                         loop_start |-> loop_start_requested,
                         loop_end |-> 0]
  /\ rt' = "half"
  /\ UNCHANGED <<ctlvars, replies, rt_current_sample, last_seen_seek_version,
                 snapshotted_seek_version, cur_origin>>

RtReadEnd ==
  /\ rt = "half"
  /\ active_snapshot' = [active_snapshot EXCEPT !.loop_end = loop_end_requested]
  /\ snapshotted_seek_version' = last_seen_seek_version
  /\ rt' = "quantum"
  /\ UNCHANGED <<ctlvars, replies, rt_current_sample, last_seen_seek_version,
                 cur_origin>>

-----------------------------------------------------------------------------
(* The realtime thread: advance_quantum() *)

LoopActive(snap) == snap.loop_enabled /\ snap.loop_end > snap.loop_start

\* A faulty variant: the end of the loop is ignored.
AdvancedStraight(snap, p, n) == p + n

\* Where n samples lead from position p.
Advanced(snap, p, n) ==
  IF LoopActive(snap) /\ p + n >= snap.loop_end
  THEN snap.loop_start
         + ((p + n - snap.loop_end) % (snap.loop_end - snap.loop_start))
  ELSE p + n

\* A quantum on a playing transport that no seek interrupted.
RtAdvance(n) ==
  /\ rt = "quantum"
  /\ active_snapshot.playing
  /\ seek_version = snapshotted_seek_version
  /\ Advanced(active_snapshot, rt_current_sample, n) <= MaxPos
  /\ rt_current_sample' = Advanced(active_snapshot, rt_current_sample, n)
  /\ rt' = "advanced"
  /\ UNCHANGED <<ctlvars, replies, last_seen_seek_version,
                 snapshotted_seek_version, active_snapshot, cur_origin>>

RtPublishPosition ==
  /\ rt = "advanced"
  /\ rt_position' = rt_current_sample
  /\ pos_origin' = cur_origin
  /\ rt' = "idle"
  /\ UNCHANGED <<ctlvars, locals, acknowledged_seek_version>>

\* A quantum that leaves the position: the transport is stopped, a seek came,
\* or the quantum would lead beyond the bound MaxPos.
RtStay ==
  /\ rt = "quantum"
  /\ \/ ~active_snapshot.playing
     \/ seek_version # snapshotted_seek_version
     \/ \A n \in Frames : Advanced(active_snapshot, rt_current_sample, n) > MaxPos
  /\ rt' = "idle"
  /\ UNCHANGED <<ctlvars, replies, locals>>

-----------------------------------------------------------------------------

Control ==
  \/ \E b \in BOOLEAN : SetPlaying(b) \/ SetLoopEnabled(b)
  \/ \E pos \in SeekRequests : SeekStoreTarget(pos)
  \/ SeekBumpVersion
  \/ \E range \in LoopRequests : LoopStoreStart(range)
  \/ LoopStoreEnd
  \/ QueryVersions
  \/ QueryPosition

Realtime ==
  \/ RtLoadVersion
  \/ RtTakeTarget
  \/ RtStorePosition
  \/ RtAckSeek
  \/ RtReadStart
  \/ RtReadEnd
  \/ \E n \in Frames : RtAdvance(n)
  \/ RtPublishPosition
  \/ RtStay

Next == Control \/ Realtime

Spec == Init /\ [][Next]_vars

\* The audio host keeps asking for quanta, and no step of one blocks.
FairSpec == Spec /\ WF_vars(Realtime)

-----------------------------------------------------------------------------
(* Properties *)

Position == 0 .. MaxPos
Version == 0 .. MaxSeeks

TypeOK ==
  /\ playing_requested \in BOOLEAN
  /\ seek_target \in Nat
  /\ seek_version \in Version
  /\ loop_enabled_requested \in BOOLEAN
  /\ loop_start_requested \in Nat
  /\ loop_end_requested \in Nat
  /\ acknowledged_seek_version \in Version
  /\ rt_position \in Nat
  /\ rt_current_sample \in Nat
  /\ last_seen_seek_version \in Version
  /\ snapshotted_seek_version \in Version
  /\ active_snapshot \in [playing : BOOLEAN, loop_enabled : BOOLEAN,
                          loop_start : Nat, loop_end : Nat]
  /\ rt \in {"idle", "seeking", "moved", "stored", "reading", "half",
             "quantum", "advanced"}
  /\ ctl \in {"idle", "seeking", "looping", "querying"}
  /\ pending_end \in Nat
  /\ cur_origin \in Version
  /\ pos_origin \in Version

\* current_sample() never shows a position from before the last seek: when it
\* decides to load rt_position_, and until it has, that position stems from
\* the last seek that was made, though RT may be storing positions meanwhile.
NoStalePlayhead == ctl = "querying" => pos_origin = seek_version

\* Every seek takes hold of the RT position, or a later one does, also when it
\* comes in the middle of a quantum that is about to move the position.
EverySeekLands ==
  \A n \in 1 .. MaxSeeks : (seek_version = n) ~> (cur_origin >= n)

\* A quantum played with a loop never leaves the playhead at or behind the end
\* of the loop, nor throws it before its start, however short the loop and
\* wherever in or behind it the quantum began.
PlayheadStaysInLoop ==
  [][(rt = "quantum" /\ rt' = "advanced" /\ LoopActive(active_snapshot)) =>
       /\ rt_current_sample' < active_snapshot.loop_end
       /\ rt_current_sample >= active_snapshot.loop_start
            => rt_current_sample' >= active_snapshot.loop_start]_vars
=============================================================================
