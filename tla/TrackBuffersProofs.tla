----------------------- MODULE TrackBuffersProofs ------------------------
(***************************************************************************)
(* Theorems of TrackBuffers for every buffer size and number of calls.     *)
(* The argument: as long as no set_track_events began with a flush         *)
(* unanswered, a call in progress excludes a clear in progress, so that    *)
(* the active index stands still while either works, and both work on the  *)
(* other buffer; what is swapped in is therefore complete.                 *)
(***************************************************************************)
EXTENDS TrackBuffers, TLAPS

Clearing == rt \in {"clearing", "idx_loaded", "cleared", "swapped"}

\* The buffer b holds the events of track t, a call with its size.
Holds(b, t) == count[b] = t[2] /\ \A i \in 1 .. t[2] : events[b][i] = t[1]

\* A flush is pending from before RT starts to clear until it has answered.
FlushInv ==
  /\ flush_acknowledged <= flush_requested
  /\ req <= flush_requested
  /\ Clearing => flush_acknowledged < req

\* A call in progress has no flush beside it and fills the other buffer.
WriterInv ==
  Writing =>
    /\ flush_requested = flush_acknowledged
    /\ inactive_idx = Other(active_track_idx)
    /\ \A i \in 1 .. copied : events[inactive_idx][i] = sets
    /\ ctl = "sorting" => copied = n /\ count[inactive_idx] = n

\* A clear in progress works on the other buffer, too.
ClearInv ==
  /\ rt \in {"idx_loaded", "cleared"} => clear_idx = Other(active_track_idx)
  /\ rt = "cleared" => count[clear_idx] = 0

\* A quantum reads the active buffer until a call swaps another one in.
ReaderInv ==
  rt = "reading" => next >= 1 /\ (~republished => track_idx = active_track_idx)

IInv ==
  /\ TypeOK
  /\ FlushInv
  /\ ReaderInv
  /\ ~overlap => /\ WriterInv
                 /\ ClearInv
                 /\ Holds(active_track_idx, track)
                 /\ QuantumPlaysOneTrack

\* There are two buffers.
LEMMA OtherBuffer ==
  ASSUME NEW b \in Buffer PROVE Other(b) \in Buffer /\ Other(b) # b
  BY DEF Other, Buffer

\* The initial states satisfy the inductive invariant.
LEMMA InitIInv == Init => IInv
<1> SUFFICES ASSUME Init PROVE IInv
  OBVIOUS
<1> USE EventsAssumption, CallsAssumption DEF Init
<1>1. /\ events \in [Buffer -> [1 .. MaxEvents -> Call]]
      /\ count \in [Buffer -> Size]
  BY DEF Buffer, Call, Size
<1>2. republished \in BOOLEAN /\ overlap \in BOOLEAN
  OBVIOUS
<1>3. TypeOK
  BY <1>1, <1>2 DEF TypeOK, Buffer, Call, Size
<1>4. FlushInv /\ ReaderInv
  BY DEF FlushInv, ReaderInv, Clearing
<1>5. WriterInv /\ ClearInv /\ QuantumPlaysOneTrack
  BY DEF WriterInv, ClearInv, QuantumPlaysOneTrack, Writing
<1>6. Holds(active_track_idx, track)
  BY DEF Holds, Buffer
<1> QED
  BY <1>3, <1>4, <1>5, <1>6 DEF IInv

\* Every step keeps the types.
LEMMA NextTypeOK == TypeOK /\ ReaderInv /\ [Next]_vars => TypeOK'
<1> SUFFICES ASSUME TypeOK, ReaderInv, [Next]_vars PROVE TypeOK'
  OBVIOUS
<1> USE EventsAssumption, CallsAssumption
    DEF TypeOK, buffers, flush, ctlvars, rtvars
<1>0. republished' \in BOOLEAN /\ overlap' \in BOOLEAN
  <2>1. CASE Next
    BY <2>1, ZenonT(30) DEF Next, Control, Realtime, SetBegin, SetCopy, SetCount,
       SetPublish, FlushRequest, FlushReturn, RtBegin, RtClearLoad,
       RtClearCount, RtClearStore, RtFlushAck, RtStopped, RtLoadTrack,
       RtReadEvent, RtEnd, FlushPending
  <2>2. CASE UNCHANGED vars
    BY <2>2 DEF vars
  <2> QED
    BY <2>1, <2>2
<1>1. ASSUME NEW size \in Size, SetBegin(size) PROVE TypeOK'
  <2>1. sets' \in Call /\ n' \in Size /\ copied' \in 0 .. n'
    BY <1>1 DEF SetBegin, Size, Call
  <2>2. inactive_idx' \in Buffer
    BY <1>1, OtherBuffer DEF SetBegin
  <2> QED
    BY <1>0, <1>1, <2>1, <2>2 DEF SetBegin
<1>2. CASE SetCopy
  <2>1. copied + 1 \in 1 .. MaxEvents /\ copied' \in 0 .. n'
    BY <1>2 DEF SetCopy, Size
  <2>2. events' \in [Buffer -> [1 .. MaxEvents -> Call]]
    BY <1>2, <2>1 DEF SetCopy
  <2> QED
    BY <1>0, <1>2, <2>1, <2>2 DEF SetCopy
<1>3. CASE SetCount
  BY <1>0, <1>3 DEF SetCount
<1>4. CASE SetPublish
  <2>1. n' \in Size /\ copied' \in 0 .. n' /\ inactive_idx' \in Buffer
    BY <1>4 DEF SetPublish, Size, Buffer
  <2>2. track' \in Call \X Size
    BY <1>4 DEF SetPublish
  <2> QED
    BY <1>0, <1>4, <2>1, <2>2 DEF SetPublish
<1>5. CASE FlushRequest \/ FlushReturn
  <2>1. flush_requested' \in 0 .. MaxFlush /\ waiting_for' \in 0 .. MaxFlush
    BY <1>5 DEF FlushRequest, FlushReturn
  <2> QED
    BY <1>0, <1>5, <2>1 DEF FlushRequest, FlushReturn
<1>6. CASE RtBegin
  BY <1>0, <1>6 DEF RtBegin
<1>7. CASE RtClearLoad
  BY <1>0, <1>7, OtherBuffer DEF RtClearLoad
<1>8. CASE RtClearCount
  <2>1. count' \in [Buffer -> Size]
    BY <1>8 DEF RtClearCount, Size
  <2> QED
    BY <1>0, <1>8, <2>1 DEF RtClearCount
<1>9. CASE RtClearStore
  <2>1. track' \in Call \X Size /\ clear_idx' \in Buffer
    BY <1>9 DEF RtClearStore, Size, Call, Buffer
  <2> QED
    BY <1>0, <1>9, <2>1 DEF RtClearStore
<1>10. CASE RtFlushAck \/ RtStopped
  <2>1. flush_acknowledged' \in 0 .. MaxFlush /\ req' \in 0 .. MaxFlush
    BY <1>10 DEF RtFlushAck, RtStopped
  <2> QED
    BY <1>0, <1>10, <2>1 DEF RtFlushAck, RtStopped
<1>11. CASE RtLoadTrack
  BY <1>0, <1>11 DEF RtLoadTrack
<1>12. CASE RtReadEvent
  <2>1. next \in 1 .. MaxEvents /\ next' \in 0 .. MaxEvents + 1
    BY <1>12 DEF RtReadEvent, ReaderInv, Size
  <2>2. seen' \subseteq Call
    BY <1>0, <1>12, <2>1 DEF RtReadEvent
  <2> QED
    BY <1>0, <1>12, <2>1, <2>2 DEF RtReadEvent
<1>13. CASE RtEnd
  BY <1>0, <1>13 DEF RtEnd, Buffer
<1>14. CASE UNCHANGED vars
  BY <1>0, <1>14 DEF vars
<1> QED
  BY <1>1, <1>2, <1>3, <1>4, <1>5, <1>6, <1>7, <1>8, <1>9, <1>10, <1>11,
     <1>12, <1>13, <1>14 DEF Next, Control, Realtime

\* Every step keeps the order of the flush generations and the reader's buffer.
LEMMA NextFlushReader == IInv /\ [Next]_vars => FlushInv' /\ ReaderInv'
<1> SUFFICES ASSUME IInv, [Next]_vars PROVE FlushInv' /\ ReaderInv'
  OBVIOUS
<1> USE CallsAssumption DEF IInv, TypeOK, FlushInv, ReaderInv, Clearing, buffers,
        flush, ctlvars, rtvars
<1>1. ASSUME NEW size \in Size, SetBegin(size) PROVE FlushInv' /\ ReaderInv'
  BY <1>1 DEF SetBegin
<1>2. CASE SetCopy \/ SetCount \/ SetPublish
  BY <1>2 DEF SetCopy, SetCount, SetPublish
<1>3. CASE FlushRequest \/ FlushReturn
  BY <1>3 DEF FlushRequest, FlushReturn
<1>4. CASE RtBegin
  BY <1>4 DEF RtBegin, FlushPending
<1>5. CASE RtClearLoad \/ RtClearCount \/ RtClearStore
  BY <1>5 DEF RtClearLoad, RtClearCount, RtClearStore
<1>6. CASE RtFlushAck
  BY <1>6 DEF RtFlushAck
<1>7. CASE RtStopped \/ RtEnd
  BY <1>7 DEF RtStopped, RtEnd
<1>8. CASE RtLoadTrack
  BY <1>8 DEF RtLoadTrack
<1>9. CASE RtReadEvent
  BY <1>9 DEF RtReadEvent
<1>10. CASE UNCHANGED vars
  BY <1>10 DEF vars
<1> QED
  BY <1>1, <1>2, <1>3, <1>4, <1>5, <1>6, <1>7, <1>8, <1>9, <1>10
     DEF Next, Control, Realtime

\* What holds while no call began beside an unanswered flush.
QuietInv ==
  /\ WriterInv
  /\ ClearInv
  /\ Holds(active_track_idx, track)
  /\ QuantumPlaysOneTrack

\* Then a call and a clear exclude each other.
LEMMA CallExcludesClear == IInv /\ ~overlap => ~(Writing /\ Clearing)
  BY CallsAssumption DEF IInv, TypeOK, FlushInv, WriterInv

\* A call that begins beside no flush fills the buffer that is not active.
LEMMA ControlQuiet ==
  IInv /\ ~overlap /\ Control /\ ~overlap' => QuietInv'
<1> SUFFICES ASSUME IInv, ~overlap, Control, ~overlap' PROVE QuietInv'
  OBVIOUS
<1> USE EventsAssumption, CallsAssumption DEF buffers, flush, ctlvars, rtvars
<1>0. /\ TypeOK /\ FlushInv /\ ReaderInv /\ WriterInv /\ ClearInv
      /\ Holds(active_track_idx, track) /\ QuantumPlaysOneTrack
  BY DEF IInv
<1>1. ASSUME NEW size \in Size, SetBegin(size) PROVE QuietInv'
  <2>1. flush_requested = flush_acknowledged
    <3>1. ~FlushPending
      BY <1>1, Zenon DEF SetBegin
    <3> QED
      BY <1>0, <3>1 DEF FlushPending, FlushInv, TypeOK
  <2>2. WriterInv'
    BY <1>1, <2>1 DEF SetBegin, WriterInv, Writing
  <2>3. ClearInv' /\ Holds(active_track_idx, track)' /\ QuantumPlaysOneTrack'
    BY <1>0, <1>1 DEF SetBegin, ClearInv, Holds, QuantumPlaysOneTrack
  <2> QED
    BY <2>2, <2>3 DEF QuietInv
<1>2. CASE SetCopy
  <2>1. Writing /\ ~Clearing /\ inactive_idx # active_track_idx
    BY <1>0, <1>2, CallExcludesClear, OtherBuffer
       DEF SetCopy, Writing, WriterInv, TypeOK
  <2>2. /\ events'[inactive_idx] = [events[inactive_idx] EXCEPT ![copied + 1] = sets]
        /\ events'[active_track_idx] = events[active_track_idx]
    BY <1>0, <1>2, <2>1 DEF SetCopy, TypeOK
  <2>3. \A i \in 1 .. copied + 1 : events'[inactive_idx][i] = sets
    BY <1>0, <1>2, <2>1, <2>2 DEF SetCopy, TypeOK, WriterInv, Size
  <2>4. WriterInv'
    BY <1>0, <1>2, <2>1, <2>3 DEF SetCopy, WriterInv, Writing
  <2>5. ClearInv' /\ Holds(active_track_idx, track)' /\ QuantumPlaysOneTrack'
    BY <1>0, <1>2, <2>1, <2>2
       DEF SetCopy, ClearInv, Clearing, Holds, QuantumPlaysOneTrack
  <2> QED
    BY <2>4, <2>5 DEF QuietInv
<1>3. CASE SetCount
  <2>1. Writing /\ ~Clearing /\ inactive_idx # active_track_idx
    BY <1>0, <1>3, CallExcludesClear, OtherBuffer
       DEF SetCount, Writing, WriterInv, TypeOK
  <2>2. WriterInv'
    BY <1>0, <1>3, <2>1 DEF SetCount, WriterInv, Writing, TypeOK
  <2>3. ClearInv' /\ Holds(active_track_idx, track)' /\ QuantumPlaysOneTrack'
    BY <1>0, <1>3, <2>1
       DEF SetCount, ClearInv, Clearing, Holds, QuantumPlaysOneTrack, TypeOK
  <2> QED
    BY <2>2, <2>3 DEF QuietInv
<1>4. CASE SetPublish
  <2>1. Writing /\ ~Clearing
    BY <1>4, CallExcludesClear DEF SetPublish, Writing
  <2>2. Holds(active_track_idx, track)'
    BY <1>0, <1>4, <2>1 DEF SetPublish, WriterInv, Holds
  <2>3. WriterInv' /\ ClearInv' /\ QuantumPlaysOneTrack'
    BY <1>4, <2>1
       DEF SetPublish, WriterInv, Writing, ClearInv, Clearing, QuantumPlaysOneTrack
  <2> QED
    BY <2>2, <2>3 DEF QuietInv
<1>5. CASE FlushRequest \/ FlushReturn
  BY <1>0, <1>5 DEF FlushRequest, FlushReturn, QuietInv, WriterInv, Writing,
     ClearInv, Holds, QuantumPlaysOneTrack
<1> QED
  BY <1>1, <1>2, <1>3, <1>4, <1>5 DEF Control

\* The realtime thread clears the buffer that is not active, and what it reads
\* of the active one is of the last track.
LEMMA RealtimeQuiet ==
  IInv /\ ~overlap /\ Realtime => QuietInv'
<1> SUFFICES ASSUME IInv, ~overlap, Realtime PROVE QuietInv'
  OBVIOUS
<1> USE EventsAssumption, CallsAssumption DEF buffers, flush, ctlvars, rtvars
<1>0. /\ TypeOK /\ FlushInv /\ ReaderInv /\ WriterInv /\ ClearInv
      /\ Holds(active_track_idx, track) /\ QuantumPlaysOneTrack
  BY DEF IInv
<1>1. CASE RtBegin \/ RtStopped \/ RtEnd
  BY <1>0, <1>1 DEF RtBegin, RtStopped, RtEnd, FlushPending, QuietInv,
     WriterInv, Writing, ClearInv, Holds, QuantumPlaysOneTrack
<1>2. CASE RtClearLoad
  BY <1>0, <1>2 DEF RtClearLoad, QuietInv, WriterInv, Writing, ClearInv, Holds,
     QuantumPlaysOneTrack
<1>3. CASE RtClearCount
  <2>1. ~Writing /\ clear_idx # active_track_idx
    BY <1>0, <1>3, CallExcludesClear, OtherBuffer
       DEF RtClearCount, Clearing, ClearInv, TypeOK
  <2> QED
    BY <1>0, <1>3, <2>1 DEF RtClearCount, QuietInv, WriterInv, Writing, ClearInv,
       Holds, QuantumPlaysOneTrack, TypeOK
<1>4. CASE RtClearStore
  <2>1. ~Writing /\ count[clear_idx] = 0
    BY <1>0, <1>4, CallExcludesClear DEF RtClearStore, Clearing, ClearInv
  <2> QED
    BY <1>4, <2>1 DEF RtClearStore, QuietInv, WriterInv, Writing, ClearInv, Holds,
       QuantumPlaysOneTrack
<1>5. CASE RtFlushAck
  <2>1. ~Writing
    BY <1>5, CallExcludesClear DEF RtFlushAck, Clearing
  <2> QED
    BY <1>0, <1>5, <2>1 DEF RtFlushAck, QuietInv, WriterInv, Writing, ClearInv,
       Holds, QuantumPlaysOneTrack
<1>6. CASE RtLoadTrack
  BY <1>0, <1>6 DEF RtLoadTrack, QuietInv, WriterInv, Writing, ClearInv, Holds,
     QuantumPlaysOneTrack
<1>7. CASE RtReadEvent
  <2>1. ~republished => seen' \subseteq {track[1]}
    <3> SUFFICES ASSUME ~republished PROVE seen' \subseteq {track[1]}
      OBVIOUS
    <3>1. track_idx = active_track_idx /\ next >= 1
      BY <1>0, <1>7 DEF RtReadEvent, ReaderInv
    <3>2. next \in 1 .. track[2]
      BY <1>0, <1>7, <3>1 DEF RtReadEvent, Holds, TypeOK, Size
    <3>3. events[track_idx][next] = track[1]
      BY <1>0, <3>1, <3>2 DEF Holds
    <3> QED
      BY <1>0, <1>7, <3>3 DEF RtReadEvent, QuantumPlaysOneTrack
  <2> QED
    BY <1>0, <1>7, <2>1 DEF RtReadEvent, QuietInv, WriterInv, Writing, ClearInv,
       Holds, QuantumPlaysOneTrack
<1> QED
  BY <1>1, <1>2, <1>3, <1>4, <1>5, <1>6, <1>7 DEF Realtime

\* The invariant is inductive: `overlap` never goes back to FALSE.
LEMMA NextIInv == IInv /\ [Next]_vars => IInv'
<1> SUFFICES ASSUME IInv, [Next]_vars PROVE IInv'
  OBVIOUS
<1>1. TypeOK' /\ FlushInv' /\ ReaderInv'
  BY NextTypeOK, NextFlushReader DEF IInv
<1>2. ~overlap' => ~overlap
  BY Zenon DEF Next, Control, Realtime, SetBegin, SetCopy, SetCount, SetPublish,
     FlushRequest, FlushReturn, RtBegin, RtClearLoad, RtClearCount,
     RtClearStore, RtFlushAck, RtStopped, RtLoadTrack, RtReadEvent, RtEnd,
     ctlvars, vars
<1>3. ~overlap' => QuietInv'
  <2>1. CASE UNCHANGED vars
    BY <1>2, <2>1 DEF IInv, QuietInv, WriterInv, Writing, ClearInv, Holds,
       QuantumPlaysOneTrack, vars, buffers, flush, ctlvars, rtvars
  <2> QED
    BY <1>2, <2>1, ControlQuiet, RealtimeQuiet DEF Next
<1> QED
  BY <1>1, <1>3 DEF IInv, QuietInv

-----------------------------------------------------------------------------

\* Every reachable state satisfies the inductive invariant.
THEOREM Invariance == Spec => []IInv
  BY InitIInv, NextIInv, PTL DEF Spec

\* Every reachable state is well typed.
THEOREM TypeCorrect == Spec => []TypeOK
<1>1. IInv => TypeOK
  BY DEF IInv
<1> QED
  BY <1>1, Invariance, PTL

\* One set_track_events during a quantum never writes what the quantum reads.
THEOREM OneCallIsSafe == Spec => []WriterOffReader
<1>1. IInv => WriterOffReader
  <2> SUFFICES ASSUME IInv, ~overlap, rt = "reading", Writing, ~republished
               PROVE  inactive_idx # track_idx
    BY Zenon DEF WriterOffReader
  <2> QED
    BY OtherBuffer DEF IInv, TypeOK, WriterInv, ReaderInv
<1> QED
  BY <1>1, Invariance, PTL

\* A quantum that no swap interrupts plays events of one track only.
THEOREM OneTrackPerQuantum == Spec => []QuantumPlaysOneTrack
<1>1. IInv => QuantumPlaysOneTrack
  BY DEF IInv, QuantumPlaysOneTrack
<1> QED
  BY <1>1, Invariance, PTL

\* The active buffer holds the track that was set last.
THEOREM LastTrackIsActive == Spec => []LastTrackPlays
<1>1. IInv => LastTrackPlays
  BY DEF IInv, LastTrackPlays, Holds
<1> QED
  BY <1>1, Invariance, PTL

=============================================================================
