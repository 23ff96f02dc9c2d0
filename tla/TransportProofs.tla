------------------------- MODULE TransportProofs -------------------------
(***************************************************************************)
(* Theorems of Transport for every set of requests, quantum sizes and      *)
(* bounds.  A seek leaves a trail of four counters, each of which can only *)
(* lag behind the one before: the version, what RT has seen of it, what    *)
(* the stored position stems from, and what was acknowledged.  The one     *)
(* exception, RT taking the target of a seek whose version is still to     *)
(* come, runs ahead and so does no harm.                                   *)
(***************************************************************************)
EXTENDS Transport, TLAPS

\* RT stands between seeing a new version and taking its target.
Unmoved == rt = "seeking"

\* RT has taken a target that it has not stored as the position yet.
Unstored == rt \in {"seeking", "moved"}

SeekInv ==
  /\ last_seen_seek_version <= seek_version
  /\ acknowledged_seek_version <= last_seen_seek_version
  /\ ~Unmoved => cur_origin >= last_seen_seek_version
  /\ ~Unstored => pos_origin >= last_seen_seek_version
  /\ pos_origin >= acknowledged_seek_version
  /\ cur_origin <= TargetOrigin
  /\ pos_origin <= TargetOrigin

\* What current_sample() has found out holds until it loads the position.
QueryInv == ctl = "querying" => acknowledged_seek_version = seek_version

\* A version that is being handed out is within the bound.
BumpInv == ctl = "seeking" => seek_version < MaxSeeks

IInv == TypeOK /\ SeekInv /\ QueryInv /\ BumpInv

\* Clamping yields a position.
LEMMA AtLeastNat == ASSUME NEW low \in Nat, NEW x \in Int
                    PROVE  AtLeast(low, x) \in Nat /\ AtLeast(low, x) >= low
  BY DEF AtLeast

\* Moving on by n samples yields a position, inside the loop if there is one
\* and the start was not before it.
LEMMA AdvancedInLoop ==
  ASSUME NEW snap \in [playing : BOOLEAN, loop_enabled : BOOLEAN,
                       loop_start : Nat, loop_end : Nat],
         NEW p \in Nat, NEW n \in Nat
  PROVE  /\ Advanced(snap, p, n) \in Nat
         /\ LoopActive(snap) => Advanced(snap, p, n) < snap.loop_end
         /\ (LoopActive(snap) /\ p >= snap.loop_start)
              => Advanced(snap, p, n) >= snap.loop_start
<1> DEFINE len == snap.loop_end - snap.loop_start
           excess == p + n - snap.loop_end
<1>1. CASE LoopActive(snap) /\ p + n >= snap.loop_end
  <2>1. len \in Nat \ {0} /\ excess \in Nat
    BY <1>1 DEF LoopActive
  <2>2. excess % len \in 0 .. (len - 1)
    BY <2>1
  <2>3. Advanced(snap, p, n) = snap.loop_start + (excess % len)
    BY <1>1 DEF Advanced
  <2> HIDE DEF excess
  <2> QED
    BY <2>1, <2>2, <2>3
<1>2. CASE ~(LoopActive(snap) /\ p + n >= snap.loop_end)
  BY <1>2 DEF Advanced, LoopActive
<1> QED
  BY <1>1, <1>2

\* The initial states satisfy the inductive invariant.
LEMMA InitIInv == Init => IInv
<1> SUFFICES ASSUME Init PROVE IInv
  OBVIOUS
<1>1. active_snapshot \in [playing : BOOLEAN, loop_enabled : BOOLEAN,
                           loop_start : Nat, loop_end : Nat]
  BY DEF Init, Stopped
<1>2. 0 \in Version
  BY BoundAssumption DEF Version
<1>3. playing_requested \in BOOLEAN /\ loop_enabled_requested \in BOOLEAN
  BY DEF Init
<1>4. TypeOK
  BY <1>1, <1>2, <1>3 DEF Init, TypeOK
<1>5. SeekInv /\ QueryInv /\ BumpInv
  BY DEF Init, SeekInv, QueryInv, BumpInv, Unmoved, Unstored, TargetOrigin
<1> QED
  BY <1>4, <1>5 DEF IInv

\* The steps of the control thread keep the invariant.
LEMMA ControlStep == IInv /\ Control => IInv'
<1> SUFFICES ASSUME IInv, Control PROVE IInv'
  OBVIOUS
<1> USE BoundAssumption DEF IInv, TypeOK, SeekInv, QueryInv, BumpInv, Unmoved,
        Unstored, TargetOrigin, Version, rtvars, requests, replies, locals
<1>1. ASSUME NEW b \in BOOLEAN, SetPlaying(b) \/ SetLoopEnabled(b) PROVE IInv'
  BY <1>1 DEF SetPlaying, SetLoopEnabled
<1>2. ASSUME NEW pos \in SeekRequests, SeekStoreTarget(pos) PROVE IInv'
  <2>1. AtLeast(0, pos) \in Nat
    BY RequestAssumption, AtLeastNat
  <2> QED
    BY <1>2, <2>1 DEF SeekStoreTarget
<1>3. CASE SeekBumpVersion
  BY <1>3 DEF SeekBumpVersion
<1>4. ASSUME NEW range \in LoopRequests, LoopStoreStart(range) PROVE IInv'
  <2>1. range[1] \in Int /\ range[2] \in Int
    BY RequestAssumption
  <2>2. /\ AtLeast(0, range[1]) \in Nat
        /\ AtLeast(AtLeast(0, range[1]), range[2]) \in Nat
    BY <2>1, AtLeastNat
  <2> QED
    BY <1>4, <2>2 DEF LoopStoreStart
<1>5. CASE LoopStoreEnd
  BY <1>5 DEF LoopStoreEnd
<1>6. CASE QueryVersions \/ QueryPosition
  BY <1>6 DEF QueryVersions, QueryPosition
<1> QED
  BY <1>1, <1>2, <1>3, <1>4, <1>5, <1>6 DEF Control

\* The steps of the realtime thread keep the invariant.
LEMMA RealtimeStep == IInv /\ Realtime => IInv'
<1> SUFFICES ASSUME IInv, Realtime PROVE IInv'
  OBVIOUS
<1> USE BoundAssumption DEF IInv, TypeOK, SeekInv, QueryInv, BumpInv, Unmoved,
        Unstored, TargetOrigin, Version, ctlvars, requests, replies, locals
<1>1. CASE RtLoadVersion
  BY <1>1 DEF RtLoadVersion
<1>2. CASE RtTakeTarget
  BY <1>2 DEF RtTakeTarget
<1>3. CASE RtStorePosition
  BY <1>3 DEF RtStorePosition
<1>4. CASE RtAckSeek
  BY <1>4 DEF RtAckSeek
<1>5. CASE RtReadStart
  BY <1>5 DEF RtReadStart
<1>6. CASE RtReadEnd
  BY <1>6 DEF RtReadEnd
<1>7. ASSUME NEW n \in Frames, RtAdvance(n) PROVE IInv'
  <2>1. Advanced(active_snapshot, rt_current_sample, n) \in Nat
    BY FramesAssumption, AdvancedInLoop
  <2> QED
    BY <1>7, <2>1 DEF RtAdvance
<1>8. CASE RtPublishPosition
  BY <1>8 DEF RtPublishPosition
<1>9. CASE RtStay
  BY <1>9 DEF RtStay
<1> QED
  BY <1>1, <1>2, <1>3, <1>4, <1>5, <1>6, <1>7, <1>8, <1>9 DEF Realtime

\* The invariant is inductive.
LEMMA NextIInv == IInv /\ [Next]_vars => IInv'
<1>1. IInv /\ UNCHANGED vars => IInv'
  BY DEF IInv, TypeOK, SeekInv, QueryInv, BumpInv, Unmoved, Unstored,
         TargetOrigin, vars, rtvars, ctlvars, requests, replies, locals
<1> QED
  BY <1>1, ControlStep, RealtimeStep DEF Next

-----------------------------------------------------------------------------

\* Every reachable state satisfies the inductive invariant.
THEOREM Invariance == Spec => []IInv
  BY InitIInv, NextIInv, PTL DEF Spec

\* Every reachable state is well typed.
THEOREM TypeCorrect == Spec => []TypeOK
<1>1. IInv => TypeOK
  BY DEF IInv
<1> QED
  BY <1>1, Invariance, PTL

\* The position shown to the user is never from before the last seek.
THEOREM PlayheadIsFresh == Spec => []NoStalePlayhead
<1>1. IInv => NoStalePlayhead
  BY DEF IInv, TypeOK, SeekInv, QueryInv, NoStalePlayhead, TargetOrigin, Version
<1> QED
  BY <1>1, Invariance, PTL

\* A looped quantum ends inside the loop.
THEOREM LoopIsKept == Spec => PlayheadStaysInLoop
<1> DEFINE Kept ==
      (rt = "quantum" /\ rt' = "advanced" /\ LoopActive(active_snapshot)) =>
        /\ rt_current_sample' < active_snapshot.loop_end
        /\ rt_current_sample >= active_snapshot.loop_start
             => rt_current_sample' >= active_snapshot.loop_start
<1>1. IInv /\ [Next]_vars => [Kept]_vars
  <2> SUFFICES ASSUME IInv, Next, rt = "quantum", rt' = "advanced"
               PROVE  Kept
    BY DEF vars
  <2>1. PICK n \in Frames : RtAdvance(n)
    BY DEF Next, Control, Realtime, SetPlaying, SetLoopEnabled, SeekStoreTarget,
       SeekBumpVersion, LoopStoreStart, LoopStoreEnd, QueryVersions,
       QueryPosition, RtLoadVersion, RtTakeTarget, RtStorePosition, RtAckSeek,
       RtReadStart, RtReadEnd, RtPublishPosition, RtStay, rtvars
  <2>2. rt_current_sample' = Advanced(active_snapshot, rt_current_sample, n)
    BY <2>1 DEF RtAdvance
  <2> QED
    BY <2>2, FramesAssumption, AdvancedInLoop DEF IInv, TypeOK
<1> QED
  BY <1>1, Invariance, PTL DEF Spec, PlayheadStaysInLoop
=============================================================================
