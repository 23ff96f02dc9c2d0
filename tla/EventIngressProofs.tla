----------------------- MODULE EventIngressProofs ------------------------
(***************************************************************************)
(* Theorems of EventIngress for every capacity, index width, timeline and  *)
(* number of flushes.  The ring is first shown to be the queue of its      *)
(* Contents, in the arithmetic of wrapping indices: publishing appends,    *)
(* popping takes the head, and filling the free slot changes nothing.      *)
(* The handshake and the order check then speak of Contents alone.         *)
(***************************************************************************)
EXTENDS EventIngress, SequenceTheorems, TLAPS

-----------------------------------------------------------------------------
(* Arithmetic of indices and slots.                                        *)

\* The remainder is the one number of its range that differs from the
\* dividend by a multiple of the divisor.
LEMMA DivMod ==
  ASSUME NEW c \in Nat \ {0}, NEW i \in Int
  PROVE  /\ i \div c \in Int
         /\ i % c \in 0 .. c - 1
         /\ i = c * (i \div c) + (i % c)
  OBVIOUS

\* ... and it is unique.
LEMMA ModUnique ==
  ASSUME NEW c \in Nat \ {0}, NEW q \in Int, NEW i \in Int,
         NEW r \in 0 .. c - 1, i = c * q + r
  PROVE  i % c = r
  OBVIOUS

\* Adding a multiple of the divisor does not change the remainder.
LEMMA ModShift ==
  ASSUME NEW c \in Nat \ {0}, NEW i \in Int, NEW q \in Int
  PROVE  (i + c * q) % c = i % c
<1>1. i + c * q = c * (i \div c + q) + (i % c)
  BY DivMod
<1>2. i \div c + q \in Int /\ i % c \in 0 .. c - 1 /\ i + c * q \in Int
  BY DivMod
<1> QED
  BY <1>1, <1>2, ModUnique

\* ... in particular adding the divisor itself.
LEMMA ModNext ==
  ASSUME NEW c \in Nat \ {0}, NEW i \in Int PROVE (i + c) % c = i % c
<1>1. PICK q \in Int : i + c = c * q + (i % c)
  <2>1. i \div c + 1 \in Int /\ i + c = c * (i \div c + 1) + (i % c)
    BY DivMod
  <2> QED
    BY <2>1
<1>2. i % c \in 0 .. c - 1 /\ i + c \in Int
  BY DivMod
<1> QED
  BY <1>1, <1>2, ModUnique

\* Numbers less than the divisor apart have different remainders.
LEMMA ModDistinct ==
  ASSUME NEW c \in Nat \ {0}, NEW i \in Int, NEW d \in 1 .. c - 1
  PROVE  (i + d) % c # i % c
<1> SUFFICES ASSUME (i + d) % c = i % c PROVE FALSE
  OBVIOUS
<1>0. i + d \in Int
  OBVIOUS
<1>1. PICK p \in Int : i + d = c * p + (i % c)
  BY <1>0, DivMod
<1>2. PICK q \in Int : i = c * q + (i % c) /\ i % c \in Int
  <2>1. i \div c \in Int /\ i = c * (i \div c) + (i % c) /\ i % c \in Int
    BY DivMod
  <2> QED
    BY <2>1
<1>3. d = c * (p - q)
  BY <1>1, <1>2
<1>4. CASE p - q <= 0
  BY <1>3, <1>4
<1>5. CASE p - q >= 1
  BY <1>3, <1>5
<1> QED
  BY <1>4, <1>5

\* The width of the indices is a multiple of the capacity, so that an index
\* and the number it counts have the same slot.
LEMMA SlotOfIndex ==
  ASSUME NEW i \in Int PROVE Slot(i % Modulus) = Slot(i)
<1> DEFINE q == Modulus \div Capacity  m == i \div Modulus
<1>1. q \in Int /\ Modulus = Capacity * q
  BY DivMod, RingAssumption
<1>2. m \in Int /\ i % Modulus \in Int /\ i = Modulus * m + (i % Modulus)
  BY DivMod, RingAssumption
<1> HIDE DEF q, m
<1>3. PICK n \in Int : i = (i % Modulus) + Capacity * n
  <2>1. q * m \in Int /\ i = (i % Modulus) + Capacity * (q * m)
    BY <1>1, <1>2, RingAssumption
  <2> QED
    BY <2>1
<1>4. ((i % Modulus) + Capacity * n) % Capacity = (i % Modulus) % Capacity
  BY <1>2, ModShift, RingAssumption
<1> QED
  BY <1>3, <1>4 DEF Slot

\* A slot is an index of the buffer.
LEMMA SlotType == ASSUME NEW i \in Int PROVE Slot(i) \in 0 .. Capacity - 1
  BY DivMod, RingAssumption DEF Slot

\* The index of a thread stays in its width.
LEMMA IndexType ==
  ASSUME NEW i \in 0 .. Modulus - 1
  PROVE  /\ NextIndex(i) \in 0 .. Modulus - 1
         /\ NextIndex(i) = IF i = Modulus - 1 THEN 0 ELSE i + 1
<1>1. CASE i = Modulus - 1
  <2>1. i + 1 = Modulus * 1 + 0 /\ 0 \in 0 .. Modulus - 1
    BY <1>1, RingAssumption
  <2> QED
    BY <1>1, <2>1, ModUnique, RingAssumption DEF NextIndex
<1>2. CASE i < Modulus - 1
  <2>1. i + 1 = Modulus * 0 + (i + 1) /\ i + 1 \in 0 .. Modulus - 1
    BY <1>2, RingAssumption
  <2> QED
    BY <1>2, <2>1, ModUnique, RingAssumption DEF NextIndex
<1> QED
  BY <1>1, <1>2, RingAssumption

\* From an index on, the slots follow those from the index before it.
LEMMA SlotNext ==
  ASSUME NEW r \in 0 .. Modulus - 1, NEW k \in Nat
  PROVE  Slot(NextIndex(r) + k) = Slot(r + k + 1)
<1>1. CASE NextIndex(r) = r + 1
  <2>1. NextIndex(r) + k = r + k + 1
    BY <1>1, RingAssumption
  <2> QED
    BY <2>1
<1>2. CASE r = Modulus - 1 /\ NextIndex(r) = 0
  <2>1. /\ r + k + 1 = k + Modulus /\ NextIndex(r) + k = k
        /\ k \in Int /\ k + Modulus \in Int /\ Modulus \in Nat \ {0}
    BY <1>2, RingAssumption
  <2>2. (k + Modulus) % Modulus = k % Modulus
    BY <2>1, ModNext, Zenon
  <2>3. Slot((k + Modulus) % Modulus) = Slot(k + Modulus)
    BY <2>1, SlotOfIndex
  <2>4. Slot(k % Modulus) = Slot(k)
    BY <2>1, SlotOfIndex
  <2> QED
    BY <2>1, <2>2, <2>3, <2>4
<1> QED
  BY <1>1, <1>2, IndexType

-----------------------------------------------------------------------------
(* The ring as a queue, for any two indices and any buffer.                *)

Index == 0 .. Modulus - 1
Slots == [0 .. Capacity - 1 -> Event \union {NoEvent}]
Dist(w, r) == (w - r) % Modulus
Queue(w, r, b) == [k \in 1 .. Dist(w, r) |-> b[Slot((r + k - 1) % Modulus)]]

\* The number of events is the distance from the one index to the other.
LEMMA DistValue ==
  ASSUME NEW w \in Index, NEW r \in Index
  PROVE  /\ Dist(w, r) \in 0 .. Modulus - 1
         /\ Dist(w, r) = IF w >= r THEN w - r ELSE w - r + Modulus
<1>1. CASE w >= r
  <2>1. w - r = Modulus * 0 + (w - r) /\ w - r \in 0 .. Modulus - 1
    BY <1>1, RingAssumption DEF Index
  <2> QED
    BY <1>1, <2>1, ModUnique, RingAssumption DEF Dist
<1>2. CASE w < r
  <2>1. /\ w - r = Modulus * (-1) + (w - r + Modulus)
        /\ w - r + Modulus \in 0 .. Modulus - 1
    BY <1>2, RingAssumption DEF Index
  <2> QED
    BY <1>2, <2>1, ModUnique, RingAssumption DEF Dist, Index
<1> QED
  BY <1>1, <1>2, RingAssumption DEF Index

\* The queue by the number of the slot.
LEMMA QueueValue ==
  ASSUME NEW w \in Index, NEW r \in Index, NEW b \in Slots
  PROVE  /\ Queue(w, r, b) \in Seq(Event \union {NoEvent})
         /\ Len(Queue(w, r, b)) = Dist(w, r)
         /\ \A k \in 1 .. Dist(w, r) : Queue(w, r, b)[k] = b[Slot(r + k - 1)]
<1>1. Dist(w, r) \in Nat
  BY DistValue, RingAssumption
<1>2. ASSUME NEW k \in 1 .. Dist(w, r)
      PROVE  /\ Slot((r + k - 1) % Modulus) = Slot(r + k - 1)
             /\ Slot(r + k - 1) \in 0 .. Capacity - 1
  <2>1. r + k - 1 \in Int
    BY <1>1, RingAssumption DEF Index
  <2> QED
    BY <2>1, SlotOfIndex, SlotType
<1>3. \A k \in 1 .. Dist(w, r) :
        b[Slot((r + k - 1) % Modulus)] \in Event \union {NoEvent}
  BY <1>2 DEF Slots
<1>4. Queue(w, r, b) \in [1 .. Dist(w, r) -> Event \union {NoEvent}]
  BY <1>3 DEF Queue
<1>5. /\ Queue(w, r, b) \in Seq(Event \union {NoEvent})
      /\ Len(Queue(w, r, b)) = Dist(w, r)
  BY <1>1, <1>4
<1> QED
  BY <1>2, <1>5 DEF Queue

\* The slot of the write index is the one behind the last event.
LEMMA WriteSlot ==
  ASSUME NEW w \in Index, NEW r \in Index
  PROVE  Slot(w) = Slot(r + Dist(w, r))
<1>1. CASE w >= r
  <2>1. r + Dist(w, r) = w
    BY <1>1, DistValue, RingAssumption DEF Index
  <2> QED
    BY <2>1
<1>2. CASE w < r
  <2> DEFINE i == r + Dist(w, r)
  <2>1. i \in Int /\ i = Modulus * 1 + w
    BY <1>2, DistValue, RingAssumption DEF Index
  <2> HIDE DEF i
  <2>2. i % Modulus = w
    BY <2>1, ModUnique, RingAssumption DEF Index
  <2> QED
    BY <2>1, <2>2, SlotOfIndex DEF i
<1> QED
  BY <1>1, <1>2, RingAssumption DEF Index

\* While the ring is not full, that slot holds none of its events.
LEMMA WriteSlotFree ==
  ASSUME NEW w \in Index, NEW r \in Index, Dist(w, r) < Capacity,
         NEW k \in 1 .. Dist(w, r)
  PROVE  Slot(r + k - 1) # Slot(w)
<1> DEFINE i == r + k - 1  d == Dist(w, r) - k + 1
<1>1. i \in Int /\ d \in 1 .. Capacity - 1 /\ r + Dist(w, r) = i + d
  <2>1. Dist(w, r) \in Nat
    BY DistValue, RingAssumption
  <2>2. r \in Nat /\ k \in 1 .. Dist(w, r)
    BY RingAssumption DEF Index
  <2> QED
    BY <2>1, <2>2, RingAssumption
<1> HIDE DEF d
<1>2. (i + d) % Capacity # i % Capacity
  BY <1>1, ModDistinct, RingAssumption
<1>3. Slot(w) = (i + d) % Capacity
  BY <1>1, WriteSlot DEF Slot
<1> QED
  BY <1>2, <1>3 DEF Slot

\* Filling the free slot does not change the queue.
LEMMA FillQueue ==
  ASSUME NEW w \in Index, NEW r \in Index, NEW b \in Slots,
         Dist(w, r) < Capacity, NEW e \in Event \union {NoEvent}
  PROVE  Queue(w, r, [b EXCEPT ![Slot(w)] = e]) = Queue(w, r, b)
<1> DEFINE c == [b EXCEPT ![Slot(w)] = e]
<1>1. c \in Slots
  BY DEF Slots
<1>2. ASSUME NEW k \in 1 .. Dist(w, r)
      PROVE  c[Slot(r + k - 1)] = b[Slot(r + k - 1)]
  <2>1. r + k - 1 \in Int
    BY DistValue, RingAssumption DEF Index
  <2>2. Slot(r + k - 1) \in 0 .. Capacity - 1
    BY <2>1, SlotType
  <2>3. Slot(r + k - 1) # Slot(w)
    BY WriteSlotFree
  <2> QED
    BY <2>2, <2>3 DEF Slots
<1> HIDE DEF c
<1>3. \A k \in 1 .. Dist(w, r) : Queue(w, r, c)[k] = Queue(w, r, b)[k]
  BY <1>1, <1>2, QueueValue
<1>4. /\ Queue(w, r, c) \in Seq(Event \union {NoEvent})
      /\ Queue(w, r, b) \in Seq(Event \union {NoEvent})
      /\ Len(Queue(w, r, c)) = Dist(w, r) /\ Len(Queue(w, r, b)) = Dist(w, r)
  BY <1>1, QueueValue
<1>5. Queue(w, r, c) = Queue(w, r, b)
  BY <1>3, <1>4, SeqEqual
<1> QED
  BY <1>5 DEF c

\* Moving the write index appends the event of its slot.
LEMMA PublishQueue ==
  ASSUME NEW w \in Index, NEW r \in Index, NEW b \in Slots,
         Dist(w, r) < Capacity
  PROVE  /\ Dist(NextIndex(w), r) = Dist(w, r) + 1
         /\ Queue(NextIndex(w), r, b) = Append(Queue(w, r, b), b[Slot(w)])
<1> DEFINE v == NextIndex(w)  n == Dist(w, r)
<1>1. v \in Index /\ v = IF w = Modulus - 1 THEN 0 ELSE w + 1
  BY IndexType DEF Index
<1> HIDE DEF v
<1>2. Dist(v, r) = n + 1 /\ n \in Nat
  <2>1. Dist(v, r) = IF v >= r THEN v - r ELSE v - r + Modulus
    BY <1>1, DistValue
  <2>2. n \in 0 .. Modulus - 1 /\ n = IF w >= r THEN w - r ELSE w - r + Modulus
    BY DistValue
  <2>3. n < Capacity
    OBVIOUS
  <2> HIDE DEF n
  <2> QED
    BY <1>1, <2>1, <2>2, <2>3, RingAssumption DEF Index
<1>3. b[Slot(w)] \in Event \union {NoEvent}
  <2>1. w \in Int
    BY RingAssumption DEF Index
  <2> QED
    BY <2>1, SlotType DEF Slots
<1> DEFINE s == Queue(w, r, b)  t == Queue(v, r, b)
<1>4. /\ s \in Seq(Event \union {NoEvent}) /\ Len(s) = n
      /\ \A k \in 1 .. n : s[k] = b[Slot(r + k - 1)]
  BY QueueValue
<1>5. /\ t \in Seq(Event \union {NoEvent}) /\ Len(t) = n + 1
      /\ \A k \in 1 .. n + 1 : t[k] = b[Slot(r + k - 1)]
  <2>1. /\ t \in Seq(Event \union {NoEvent}) /\ Len(t) = Dist(v, r)
        /\ \A k \in 1 .. Dist(v, r) : t[k] = b[Slot(r + k - 1)]
    BY <1>1, QueueValue
  <2> HIDE DEF t, n
  <2> QED
    BY <1>2, <2>1
<1>6. t[n + 1] = b[Slot(w)]
  <2>1. r + (n + 1) - 1 = r + n
    BY <1>2, RingAssumption DEF Index
  <2>2. t[n + 1] = b[Slot(r + (n + 1) - 1)]
    BY <1>2, <1>5
  <2> QED
    BY <2>1, <2>2, WriteSlot
<1> HIDE DEF s, t, n
<1>7. t = Append(s, b[Slot(w)])
  BY <1>2, <1>3, <1>4, <1>5, <1>6
<1> QED
  BY <1>2, <1>7 DEF s, t, v, n

\* Moving the read index takes the head.
LEMMA PopQueue ==
  ASSUME NEW w \in Index, NEW r \in Index, NEW b \in Slots, Dist(w, r) > 0
  PROVE  /\ Dist(w, NextIndex(r)) = Dist(w, r) - 1
         /\ Queue(w, NextIndex(r), b) = Tail(Queue(w, r, b))
<1> DEFINE q == NextIndex(r)  n == Dist(w, r)
<1>1. q \in Index /\ q = IF r = Modulus - 1 THEN 0 ELSE r + 1
  BY IndexType DEF Index
<1>2. Dist(w, q) = n - 1 /\ n \in Nat
  <2>1. Dist(w, q) = IF w >= q THEN w - q ELSE w - q + Modulus
    BY <1>1, DistValue
  <2>2. n \in 0 .. Modulus - 1 /\ n = IF w >= r THEN w - r ELSE w - r + Modulus
    BY DistValue
  <2>3. n > 0
    OBVIOUS
  <2> HIDE DEF q, n
  <2> QED
    BY <1>1, <2>1, <2>2, <2>3, RingAssumption DEF Index
<1> DEFINE s == Queue(w, r, b)  t == Queue(w, q, b)
<1>3. /\ s \in Seq(Event \union {NoEvent}) /\ Len(s) = n
      /\ \A k \in 1 .. n : s[k] = b[Slot(r + k - 1)]
  BY QueueValue
<1>4. /\ t \in Seq(Event \union {NoEvent}) /\ Len(t) = n - 1
      /\ \A k \in 1 .. n - 1 : t[k] = b[Slot(q + k - 1)]
  <2> HIDE DEF q
  <2>1. /\ t \in Seq(Event \union {NoEvent}) /\ Len(t) = Dist(w, q)
        /\ \A k \in 1 .. Dist(w, q) : t[k] = b[Slot(q + k - 1)]
    BY <1>1, QueueValue
  <2> HIDE DEF t, n
  <2> QED
    BY <1>2, <2>1
<1>5. ASSUME NEW k \in 1 .. n - 1 PROVE t[k] = s[k + 1]
  <2>1. k - 1 \in Nat /\ k + 1 \in 1 .. n
    BY <1>2
  <2>2. Slot(q + (k - 1)) = Slot(r + (k - 1) + 1)
    BY <2>1, SlotNext DEF Index
  <2>3. q + (k - 1) = q + k - 1 /\ r + (k - 1) + 1 = r + (k + 1) - 1
    <3> HIDE DEF q
    <3> QED
      BY <1>1, <1>2, RingAssumption DEF Index
  <2> QED
    BY <1>3, <1>4, <2>1, <2>2, <2>3
<1>6. /\ Tail(s) \in Seq(Event \union {NoEvent}) /\ Len(Tail(s)) = n - 1
      /\ \A k \in 1 .. n - 1 : Tail(s)[k] = s[k + 1]
  BY <1>2, <1>3, EmptySeq, HeadTailProperties
<1> HIDE DEF s, t
<1>7. t = Tail(s)
  BY <1>4, <1>5, <1>6, SeqEqual
<1> QED
  BY <1>2, <1>7 DEF s, t

-----------------------------------------------------------------------------
(* The ring of the specification, and what its steps do to the contents.   *)

\* The ring is the queue of its indices and its buffer, in every state.
LEMMA RingIsQueue ==
  ASSUME TypeOK
  PROVE  /\ write_index \in Index /\ read_index \in Index /\ buffer \in Slots
         /\ Size = Dist(write_index, read_index)
         /\ Contents = Queue(write_index, read_index, buffer)
         /\ Size \in Nat
         /\ Contents \in Seq(Event \union {NoEvent})
         /\ Len(Contents) = Size
         /\ Size > 0 => Contents[1] = buffer[Slot(read_index)]
<1>1. write_index \in Index /\ read_index \in Index /\ buffer \in Slots
  BY DEF TypeOK, Index, Slots
<1>2. /\ Size = Dist(write_index, read_index)
      /\ Contents = Queue(write_index, read_index, buffer)
  BY DEF Size, Dist, Contents, Queue
<1>3. Size \in Nat
  BY <1>1, <1>2, DistValue, RingAssumption
<1>4. /\ Contents \in Seq(Event \union {NoEvent})
      /\ Len(Contents) = Size
      /\ \A k \in 1 .. Size : Contents[k] = buffer[Slot(read_index + k - 1)]
  BY <1>1, <1>2, QueueValue
<1>5. ASSUME Size > 0 PROVE Contents[1] = buffer[Slot(read_index)]
  <2>1. 1 \in 1 .. Size /\ read_index + 1 - 1 = read_index
    BY <1>1, <1>3, <1>5, RingAssumption DEF Index
  <2>2. Contents[1] = buffer[Slot(read_index + 1 - 1)]
    BY <1>4, <2>1
  <2> QED
    BY <2>1, <2>2
<1> QED
  BY <1>1, <1>2, <1>3, <1>4, <1>5

\* A step that leaves the ring alone.
LEMMA RingSame ==
  ASSUME UNCHANGED ring PROVE Size' = Size /\ Contents' = Contents
  BY DEF ring, Size, Contents

\* ScheduleFill.
LEMMA RingFill ==
  ASSUME TypeOK, Size < Capacity, event \in Event,
         buffer' = [buffer EXCEPT ![Slot(write_index)] = event],
         UNCHANGED <<write_index, read_index>>
  PROVE  /\ Size' = Size /\ Contents' = Contents
         /\ buffer' \in Slots /\ buffer'[Slot(write_index')] = event
<1>1. Slot(write_index) \in 0 .. Capacity - 1
  BY SlotType, RingAssumption DEF TypeOK
<1>2. Contents' = Queue(write_index, read_index, buffer')
  BY DEF Contents, Queue, Size, Dist
<1>3. Contents' = Contents
  BY <1>2, RingIsQueue, FillQueue
<1> QED
  BY <1>1, <1>3 DEF Size, TypeOK, Slots

\* SchedulePublish.
LEMMA RingPublish ==
  ASSUME TypeOK, Size < Capacity, buffer[Slot(write_index)] = event,
         write_index' = NextIndex(write_index),
         UNCHANGED <<read_index, buffer>>
  PROVE  /\ Size' = Size + 1
         /\ Contents' = Append(Contents, event)
         /\ \A k \in 1 .. Size : Contents'[k] = Contents[k]
         /\ Contents'[Size + 1] = event
<1>1. /\ Size' = Dist(NextIndex(write_index), read_index)
      /\ Contents' = Queue(NextIndex(write_index), read_index, buffer)
  BY DEF Size, Dist, Contents, Queue
<1>2. Size' = Size + 1 /\ Contents' = Append(Contents, event)
  BY <1>1, RingIsQueue, PublishQueue
<1> QED
  BY <1>2, RingIsQueue

\* RtFlushPop and RtTake.
LEMMA RingPop ==
  ASSUME TypeOK, Size > 0, read_index' = NextIndex(read_index),
         UNCHANGED <<write_index, buffer>>
  PROVE  /\ Size' = Size - 1
         /\ Contents' = Tail(Contents)
         /\ \A k \in 1 .. Size - 1 : Contents'[k] = Contents[k + 1]
<1>1. /\ Size' = Dist(write_index, NextIndex(read_index))
      /\ Contents' = Queue(write_index, NextIndex(read_index), buffer)
  BY DEF Size, Dist, Contents, Queue
<1>2. Size' = Size - 1 /\ Contents' = Tail(Contents)
  BY <1>1, RingIsQueue, PopQueue
<1> QED
  BY <1>2, RingIsQueue, EmptySeq, HeadTailProperties

-----------------------------------------------------------------------------
(* The inductive invariant.                                                *)

Scheduling == ctl \in {"filling", "filled"}

\* The ring is never overfilled; a schedule in progress has a slot for its
\* event, and a copy in progress has an event in its slot.
RingInv ==
  /\ Size <= Capacity
  /\ Scheduling => Size < Capacity /\ event \in Event
  /\ ctl = "filled" => buffer[Slot(write_index)] = event
  /\ rt = "copying" => Size > 0
  /\ \A k \in 1 .. Size : Contents[k] \in Event

\* The counts of the handshake: RT answers a request that was made, and every
\* event knows of one not answered later than it was scheduled.
HandshakeInv ==
  /\ flush_acknowledged <= flush_requested
  /\ rt \in {"flushing", "flushed"} =>
       flush_acknowledged <= flush_req /\ flush_req <= flush_requested
  /\ Scheduling => event.flushes = flush_requested
  /\ ctl = "waiting" => waiting_for = flush_requested
  /\ \A k \in 1 .. Size :
       /\ Contents[k].flushes >= flush_acknowledged
       /\ Contents[k].flushes <= flush_requested
       /\ rt = "flushed" => Contents[k].flushes >= flush_req
       /\ ctl = "waiting" => Contents[k].flushes < waiting_for

\* Unless a seek met a filled ring, the order check knows the newest event.
OrderInv ==
  ~sought =>
    /\ \A k \in 1 .. Size - 1 : Contents[k].pos <= Contents[k + 1].pos
    /\ Size > 0 => /\ has_scheduled_events
                   /\ Contents[Size].pos <= last_scheduled_sample
    /\ Scheduling /\ has_scheduled_events => event.pos >= last_scheduled_sample

IInv == TypeOK /\ RingInv /\ HandshakeInv /\ OrderInv

\* The initial states satisfy the inductive invariant.
LEMMA InitIInv == Init => IInv
<1> SUFFICES ASSUME Init PROVE IInv
  OBVIOUS
<1> USE RingAssumption, TimelineAssumption, FlushAssumption DEF Init
<1>1. TypeOK
  <2>1. NoSeek \in Position \union {NoSeek} /\ 0 \in Position /\ 0 \in Request
    BY DEF Position, Request
  <2>2. has_scheduled_events \in BOOLEAN /\ snap_playing \in BOOLEAN
        /\ playing \in BOOLEAN /\ sought \in BOOLEAN
    OBVIOUS
  <2> QED
    BY <2>1, <2>2 DEF TypeOK
<1>2. Size = 0
  BY <1>1, RingIsQueue, DistValue
<1>3. RingInv
  BY <1>2 DEF RingInv, Scheduling
<1>4. HandshakeInv /\ OrderInv
  BY <1>2 DEF HandshakeInv, OrderInv, Scheduling
<1> QED
  BY <1>1, <1>3, <1>4 DEF IInv

\* Every step keeps the types.
LEMMA NextTypeOK == TypeOK /\ RingInv /\ [Next]_vars => TypeOK'
<1> SUFFICES ASSUME TypeOK, RingInv, [Next]_vars PROVE TypeOK'
  OBVIOUS
<1> USE TimelineAssumption, FlushAssumption
    DEF TypeOK, ring, tracking, handshake, transport, ctlvars, quantum, rtvars
<1>0. /\ has_scheduled_events' \in BOOLEAN /\ snap_playing' \in BOOLEAN
      /\ playing' \in BOOLEAN /\ sought' \in BOOLEAN
  <2>1. CASE Control
    BY <2>1, ZenonT(30) DEF Control, ScheduleCheck, ScheduleFill,
       SchedulePublish, FlushRequest, FlushDone, FlushTimeout, SetPlaying, Seek
  <2>2. CASE Realtime
    BY <2>2, ZenonT(30) DEF Realtime, RtBegin, RtLoadFlush, RtFlushPop,
       RtFlushEmpty, RtFlushAck, RtPeek, RtPeekEmpty, RtTake, RtStop, RtEnd
  <2>3. CASE UNCHANGED vars
    BY <2>3 DEF vars
  <2> QED
    BY <2>1, <2>2, <2>3 DEF Next
<1>1. ASSUME NEW pos \in Position, ScheduleCheck(pos) PROVE TypeOK'
  <2>1. event' \in Event
    BY <1>1 DEF ScheduleCheck, Event
  <2> QED
    BY <1>0, <1>1, <2>1 DEF ScheduleCheck
<1>2. ASSUME NEW pos \in Position, Seek(pos) PROVE TypeOK'
  BY <1>0, <1>2 DEF Seek
<1>3. CASE ScheduleFill
  <2>1. buffer' \in [0 .. Capacity - 1 -> Event \union {NoEvent}]
    BY <1>3 DEF ScheduleFill
  <2> QED
    BY <1>0, <1>3, <2>1 DEF ScheduleFill
<1>4. CASE SchedulePublish
  <2>1. write_index' \in 0 .. Modulus - 1
    BY <1>4, IndexType DEF SchedulePublish
  <2>2. last_scheduled_sample' \in Position
    BY <1>4 DEF SchedulePublish, RingInv, Scheduling, Event
  <2> QED
    BY <1>0, <1>4, <2>1, <2>2 DEF SchedulePublish
<1>5. CASE FlushRequest \/ FlushDone \/ FlushTimeout
  <2>1. /\ flush_requested' \in Request /\ waiting_for' \in Request
        /\ last_scheduled_sample' \in Position
    BY <1>5 DEF FlushRequest, FlushDone, FlushTimeout, Request, Position
  <2> QED
    BY <1>0, <1>5, <2>1 DEF FlushRequest, FlushDone, FlushTimeout
<1>6. ASSUME NEW p \in BOOLEAN, SetPlaying(p) PROVE TypeOK'
  BY <1>0, <1>6 DEF SetPlaying
<1>7. CASE RtBegin
  <2>1. start_pos' \in Position
    BY <1>7 DEF RtBegin
  <2> QED
    BY <1>0, <1>7, <2>1 DEF RtBegin
<1>8. CASE RtLoadFlush
  BY <1>0, <1>8 DEF RtLoadFlush, Proceed
<1>9. CASE RtFlushPop \/ RtTake
  <2>1. read_index' \in 0 .. Modulus - 1
    BY <1>9, IndexType DEF RtFlushPop, RtTake
  <2> QED
    BY <1>0, <1>9, <2>1 DEF RtFlushPop, RtTake
<1>10. CASE RtFlushEmpty \/ RtFlushAck \/ RtPeek \/ RtPeekEmpty \/ RtStop
  BY <1>0, <1>10
     DEF RtFlushEmpty, RtFlushAck, RtPeek, RtPeekEmpty, RtStop, Proceed
<1>11. CASE RtEnd
  <2>1. position' \in Position /\ start_pos' \in Position
    BY <1>11 DEF RtEnd, EndPos, Position
  <2>2. flush_req' \in Request
    BY <1>11 DEF RtEnd, Request
  <2> QED
    BY <1>0, <1>11, <2>1, <2>2 DEF RtEnd
<1>12. CASE UNCHANGED vars
  BY <1>0, <1>12 DEF vars
<1> QED
  BY <1>1, <1>2, <1>3, <1>4, <1>5, <1>6, <1>7, <1>8, <1>9, <1>10, <1>11, <1>12
     DEF Next, Control, Realtime

\* The steps of both threads that leave the ring alone.
RingKept ==
  \/ \E pos \in Position : ScheduleCheck(pos) \/ Seek(pos)
  \/ \E p \in BOOLEAN : SetPlaying(p)
  \/ FlushRequest \/ FlushDone \/ FlushTimeout
  \/ RtBegin \/ RtLoadFlush \/ RtFlushEmpty \/ RtFlushAck
  \/ RtPeek \/ RtPeekEmpty \/ RtStop \/ RtEnd
  \/ UNCHANGED vars

\* Every other step is one of the four that write a slot or move an index.
LEMMA RingSteps ==
  [Next]_vars =>
    \/ RingKept
    \/ ScheduleFill \/ SchedulePublish \/ RtFlushPop \/ RtTake
  BY DEF Next, Control, Realtime, RingKept

\* ... and these leave it alone.
LEMMA RingKeptSame == RingKept => UNCHANGED ring
  BY DEF RingKept, ScheduleCheck, Seek, SetPlaying, FlushRequest, FlushDone,
     FlushTimeout, RtBegin, RtLoadFlush, RtFlushEmpty, RtFlushAck, RtPeek,
     RtPeekEmpty, RtStop, RtEnd, vars

\* Every step keeps RingInv.
LEMMA NextRingInv == TypeOK /\ RingInv /\ [Next]_vars => RingInv'
<1> SUFFICES ASSUME TypeOK, RingInv, [Next]_vars PROVE RingInv'
  OBVIOUS
<1> USE DEF RingInv, Scheduling
<1>0. Size \in Nat /\ Capacity \in Nat
  BY RingIsQueue, RingAssumption
<1>1. CASE RingKept
  <2>1. Size' = Size /\ Contents' = Contents /\ UNCHANGED ring
    BY <1>1, RingKeptSame, RingSame
  <2>2. Scheduling' => Size < Capacity /\ event' \in Event
    BY <1>0, <1>1 DEF RingKept, ScheduleCheck, Seek, SetPlaying, FlushRequest,
       FlushDone, FlushTimeout, RtBegin, RtLoadFlush, RtFlushEmpty, RtFlushAck,
       RtPeek, RtPeekEmpty, RtStop, RtEnd, vars, ctlvars, Full, Event, TypeOK
  <2>3. ctl' = "filled" => ctl = "filled" /\ event' = event
    BY <1>1 DEF RingKept, ScheduleCheck, Seek, SetPlaying, FlushRequest,
       FlushDone, FlushTimeout, RtBegin, RtLoadFlush, RtFlushEmpty, RtFlushAck,
       RtPeek, RtPeekEmpty, RtStop, RtEnd, vars, ctlvars
  <2>4. rt' = "copying" => Size > 0
    BY <1>1 DEF RingKept, ScheduleCheck, Seek, SetPlaying, FlushRequest,
       FlushDone, FlushTimeout, RtBegin, RtLoadFlush, RtFlushEmpty, RtFlushAck,
       RtPeek, RtPeekEmpty, RtStop, RtEnd, vars, rtvars, Proceed
  <2> QED
    BY <2>1, <2>2, <2>3, <2>4 DEF ring
<1>2. CASE ScheduleFill
  BY <1>2, RingFill DEF ScheduleFill, rtvars
<1>3. CASE SchedulePublish
  BY <1>0, <1>3, RingPublish DEF SchedulePublish, rtvars
<1>4. CASE RtFlushPop \/ RtTake
  BY <1>0, <1>4, RingPop DEF RtFlushPop, RtTake, ctlvars, rtvars
<1> QED
  BY <1>1, <1>2, <1>3, <1>4, RingSteps

\* Every step keeps HandshakeInv.  An acknowledgement finds only events that
\* were scheduled after the request it answers, for RT has emptied the ring
\* since it loaded the request, and a new event knows of every request.
LEMMA NextHandshakeInv ==
  TypeOK /\ RingInv /\ HandshakeInv /\ [Next]_vars => HandshakeInv'
<1> SUFFICES ASSUME TypeOK, RingInv, HandshakeInv, [Next]_vars
             PROVE  HandshakeInv'
  OBVIOUS
<1>0. /\ Size \in Nat
      /\ flush_requested \in Nat /\ flush_acknowledged \in Nat
      /\ flush_req \in Nat /\ waiting_for \in Nat
      /\ \A k \in 1 .. Size : Contents[k].flushes \in Nat
  BY RingIsQueue, FlushAssumption DEF TypeOK, Request, RingInv, Event
<1> USE DEF HandshakeInv, Scheduling
<1>1. ASSUME UNCHANGED ring,
             UNCHANGED <<handshake, ctl, event, waiting_for, rt, flush_req>>
      PROVE  HandshakeInv'
  BY <1>1, RingSame DEF handshake
<1>2. ASSUME NEW pos \in Position, ScheduleCheck(pos) PROVE HandshakeInv'
  BY <1>0, <1>2, RingSame
     DEF ScheduleCheck, handshake, rtvars
<1>3. ASSUME NEW pos \in Position, Seek(pos) PROVE HandshakeInv'
  BY <1>1, <1>3 DEF Seek, rtvars
<1>4. ASSUME NEW p \in BOOLEAN, SetPlaying(p) PROVE HandshakeInv'
  BY <1>1, <1>4 DEF SetPlaying, ctlvars, rtvars
<1>5. CASE FlushRequest
  BY <1>0, <1>5, RingSame DEF FlushRequest, rtvars
<1>6. CASE FlushDone \/ FlushTimeout
  BY <1>0, <1>6, RingSame DEF FlushDone, FlushTimeout, handshake, rtvars
<1>7. CASE ScheduleFill
  BY <1>7, RingFill DEF ScheduleFill, RingInv, handshake, rtvars
<1>8. CASE SchedulePublish
  <2>1. /\ Size' = Size + 1 /\ Contents'[Size + 1] = event
        /\ \A k \in 1 .. Size : Contents'[k] = Contents[k]
    BY <1>8, RingPublish DEF SchedulePublish, RingInv
  <2>2. UNCHANGED <<handshake, rt, flush_req>> /\ ctl' = "idle"
    BY <1>8 DEF SchedulePublish, rtvars
  <2>3. event.flushes = flush_requested
    BY <1>8 DEF SchedulePublish
  <2>4. ASSUME NEW k \in 1 .. Size'
        PROVE  /\ Contents'[k].flushes >= flush_acknowledged
               /\ Contents'[k].flushes <= flush_requested
               /\ rt = "flushed" => Contents'[k].flushes >= flush_req
    <3>1. CASE k \in 1 .. Size
      BY <2>1, <3>1
    <3>2. CASE k = Size + 1
      BY <1>0, <2>1, <2>3, <3>2
    <3> QED
      BY <1>0, <2>1, <3>1, <3>2
  <2> QED
    BY <2>2, <2>4 DEF handshake
<1>9. CASE RtFlushPop \/ RtTake
  <2>1. /\ Size' = Size - 1 /\ Size > 0
        /\ \A k \in 1 .. Size - 1 : Contents'[k] = Contents[k + 1]
    BY <1>9, RingPop DEF RtFlushPop, RtTake, RingInv
  <2>2. ASSUME NEW k \in 1 .. Size'
        PROVE  k + 1 \in 1 .. Size /\ Contents'[k] = Contents[k + 1]
    BY <1>0, <2>1
  <2>3. /\ UNCHANGED <<handshake, ctl, event, waiting_for, flush_req>>
        /\ rt' # "flushed"
        /\ rt' = "flushing" => rt = "flushing"
    BY <1>9 DEF RtFlushPop, RtTake, ctlvars, rtvars, quantum
  <2> QED
    BY <2>2, <2>3 DEF handshake
<1>10. CASE RtBegin
  BY <1>10, RingSame DEF RtBegin, handshake, ctlvars
<1>11. CASE RtLoadFlush
  BY <1>0, <1>11, RingSame DEF RtLoadFlush, Proceed, handshake, ctlvars
<1>12. CASE RtFlushEmpty
  BY <1>12, RingSame DEF RtFlushEmpty, handshake, ctlvars, quantum
<1>13. CASE RtFlushAck
  BY <1>0, <1>13, RingSame DEF RtFlushAck, Proceed, ctlvars, quantum
<1>14. CASE RtPeek \/ RtPeekEmpty \/ RtStop
  BY <1>14, RingSame DEF RtPeek, RtPeekEmpty, RtStop, handshake, ctlvars, quantum
<1>15. CASE RtEnd
  BY <1>15, RingSame DEF RtEnd, handshake, ctlvars
<1>16. CASE UNCHANGED vars
  BY <1>1, <1>16 DEF vars, ctlvars, rtvars
<1> QED
  BY <1>2, <1>3, <1>4, <1>5, <1>6, <1>7, <1>8, <1>9, <1>10, <1>11, <1>12,
     <1>13, <1>14, <1>15, <1>16 DEF Next, Control, Realtime

\* Every step keeps OrderInv: a flush that is answered finds the ring empty
\* when the order check forgets the newest event.
LEMMA NextOrderInv ==
  TypeOK /\ RingInv /\ HandshakeInv /\ OrderInv /\ [Next]_vars => OrderInv'
<1> SUFFICES ASSUME TypeOK, RingInv, HandshakeInv, OrderInv, [Next]_vars
             PROVE  OrderInv'
  OBVIOUS
<1>0. /\ Size \in Nat
      /\ last_scheduled_sample \in Int
      /\ flush_acknowledged \in Nat /\ waiting_for \in Nat
      /\ \A k \in 1 .. Size :
           Contents[k].flushes \in Nat /\ Contents[k].pos \in Int
      /\ Scheduling => event.pos \in Int
  BY RingIsQueue, TimelineAssumption, FlushAssumption
     DEF TypeOK, Request, Position, RingInv, Event
<1> USE DEF OrderInv, Scheduling
<1>1. ASSUME UNCHANGED <<ring, ctl, event, tracking, sought>> PROVE OrderInv'
  BY <1>1, RingSame DEF tracking
<1>2. ASSUME NEW pos \in Position, ScheduleCheck(pos) PROVE OrderInv'
  BY <1>0, <1>2, RingSame DEF ScheduleCheck, InOrder, tracking, rtvars
<1>3. ASSUME NEW pos \in Position, Seek(pos) PROVE OrderInv'
  BY <1>0, <1>3, RingSame DEF Seek
<1>4. ASSUME NEW p \in BOOLEAN, SetPlaying(p) PROVE OrderInv'
  BY <1>1, <1>4 DEF SetPlaying, ctlvars
<1>5. CASE FlushRequest \/ FlushTimeout
  BY <1>5, RingSame DEF FlushRequest, FlushTimeout, tracking
<1>6. CASE FlushDone
  <2>1. Size = 0
    BY <1>0, <1>6 DEF FlushDone, HandshakeInv
  <2> QED
    BY <1>6, <2>1, RingSame DEF FlushDone
<1>7. CASE ScheduleFill
  BY <1>7, RingFill DEF ScheduleFill, RingInv, tracking
<1>8. CASE SchedulePublish
  <2>1. /\ Size' = Size + 1 /\ Contents'[Size + 1] = event
        /\ \A k \in 1 .. Size : Contents'[k] = Contents[k]
    BY <1>8, RingPublish DEF SchedulePublish, RingInv
  <2>2. /\ ctl' = "idle" /\ has_scheduled_events' = TRUE
        /\ last_scheduled_sample' = event.pos /\ sought' = sought
        /\ event.pos \in Int
    BY <1>0, <1>8 DEF SchedulePublish
  <2>3. ASSUME ~sought, NEW k \in 1 .. Size
        PROVE  Contents'[k].pos <= Contents'[k + 1].pos
    <3>1. CASE k < Size
      <4>1. k \in 1 .. Size - 1 /\ k + 1 \in 1 .. Size
        BY <1>0, <3>1
      <4> QED
        BY <2>1, <2>3, <4>1
    <3>2. CASE k = Size
      <4>1. Contents[Size].pos <= last_scheduled_sample
            /\ last_scheduled_sample <= event.pos
        BY <1>0, <1>8, <2>3, <3>2 DEF SchedulePublish
      <4> QED
        BY <1>0, <2>1, <2>2, <3>2, <4>1
    <3> QED
      BY <1>0, <3>1, <3>2
  <2> QED
    BY <1>0, <2>1, <2>2, <2>3
<1>9. CASE RtFlushPop \/ RtTake
  <2>1. /\ Size' = Size - 1 /\ Size > 0
        /\ \A k \in 1 .. Size - 1 : Contents'[k] = Contents[k + 1]
    BY <1>9, RingPop DEF RtFlushPop, RtTake, RingInv
  <2>2. UNCHANGED <<ctl, event, tracking, sought>>
    BY <1>9 DEF RtFlushPop, RtTake, ctlvars
  <2>3. ASSUME ~sought, NEW k \in 1 .. Size' - 1
        PROVE  Contents'[k].pos <= Contents'[k + 1].pos
    <3>1. k + 1 \in 1 .. Size - 1 /\ k \in 1 .. Size - 1
      BY <1>0, <2>1
    <3> QED
      BY <2>1, <2>3, <3>1
  <2>4. ASSUME ~sought, Size' > 0
        PROVE  /\ has_scheduled_events
               /\ Contents'[Size'].pos <= last_scheduled_sample
    <3>1. Size - 1 \in 1 .. Size - 1 /\ (Size - 1) + 1 = Size
      BY <1>0, <2>1, <2>4
    <3> QED
      BY <2>1, <2>4, <3>1
  <2> QED
    BY <2>2, <2>3, <2>4 DEF tracking
<1>10. CASE RtBegin \/ RtLoadFlush \/ RtFlushEmpty \/ RtFlushAck \/ RtPeek
            \/ RtPeekEmpty \/ RtStop \/ RtEnd
  BY <1>1, <1>10 DEF RtBegin, RtLoadFlush, RtFlushEmpty, RtFlushAck, RtPeek,
     RtPeekEmpty, RtStop, RtEnd, ctlvars
<1>11. CASE UNCHANGED vars
  BY <1>1, <1>11 DEF vars, ctlvars
<1> QED
  BY <1>2, <1>3, <1>4, <1>5, <1>6, <1>7, <1>8, <1>9, <1>10, <1>11
     DEF Next, Control, Realtime

\* The inductive invariant holds in every reachable state.
THEOREM Invariance == Spec => []IInv
<1>1. Init => IInv
  BY InitIInv
<1>2. IInv /\ [Next]_vars => IInv'
  BY NextTypeOK, NextRingInv, NextHandshakeInv, NextOrderInv DEF IInv
<1> QED
  BY <1>1, <1>2, PTL DEF Spec

-----------------------------------------------------------------------------
(* What follows.                                                           *)

\* The indices stay in their width and every local in its range, whatever
\* schedule_event(), flush_events() and process() do.
THEOREM TypeCorrect == Spec => []TypeOK
<1>1. IInv => TypeOK
  BY DEF IInv
<1> QED
  BY <1>1, Invariance, PTL

\* push() never writes the slot that process() is copying from, for every
\* capacity and every width of the indices that is a multiple of it.
THEOREM SlotsAreNotShared == Spec => []NoSlotRace
<1>1. IInv => NoSlotRace
  <2> SUFFICES ASSUME IInv, Scheduling, rt = "copying"
               PROVE  Slot(write_index) # Slot(read_index)
    BY DEF NoSlotRace, Scheduling
  <2>1. Size < Capacity /\ Size > 0 /\ TypeOK
    BY DEF IInv, RingInv
  <2>2. /\ write_index \in Index /\ read_index \in Index
        /\ Size = Dist(write_index, read_index) /\ Size \in Nat
    BY <2>1, RingIsQueue
  <2>3. 1 \in 1 .. Dist(write_index, read_index)
        /\ read_index + 1 - 1 = read_index
    BY <2>1, <2>2, RingAssumption DEF Index
  <2>4. Slot(read_index + 1 - 1) # Slot(write_index)
    BY <2>1, <2>2, <2>3, WriteSlotFree
  <2> QED
    BY <2>3, <2>4
<1> QED
  BY <1>1, Invariance, PTL

\* After the acknowledgement of a flush, process() finds no event in the ring
\* that was scheduled before the request.
THEOREM FlushEmpties == Spec => []FlushLeavesNothingOld
<1>1. IInv => FlushLeavesNothingOld
  BY DEF IInv, HandshakeInv, FlushLeavesNothingOld
<1> QED
  BY <1>1, Invariance, PTL

\* The check of schedule_event() against last_scheduled_sample_ keeps the ring
\* sorted by position, although flush_events() makes it forget.
THEOREM RingIsSorted == Spec => []SortedUntilSought
<1>1. IInv => SortedUntilSought
  BY DEF IInv, OrderInv, SortedUntilSought
<1> QED
  BY <1>1, Invariance, PTL

\* The ring with its wrapping indices, filled and emptied by two threads in
\* separate steps, implements the bounded queue of EventFifo: publishing is
\* the enqueue, moving the read index the dequeue, all else a stutter.
THEOREM RingImplementsFifo == Spec => ImplementsFifo
<1>1. Init => Fifo!Init
  <2> SUFFICES ASSUME Init PROVE Contents = <<>>
    BY DEF Fifo!Init
  <2>1. TypeOK
    BY InitIInv DEF IInv
  <2>2. Size = 0
    BY <2>1, RingIsQueue, DistValue DEF Init
  <2> QED
    BY <2>1, <2>2, RingIsQueue, EmptySeq
<1>2. IInv /\ [Next]_vars => [Fifo!Next]_Contents
  <2> SUFFICES ASSUME IInv, [Next]_vars
               PROVE  Fifo!Next \/ Contents' = Contents
    OBVIOUS
  <2>0. TypeOK /\ RingInv /\ Size \in Nat /\ Len(Contents) = Size
    BY RingIsQueue DEF IInv
  <2>1. CASE RingKept
    BY <2>1, RingKeptSame, RingSame
  <2>2. CASE ScheduleFill
    BY <2>0, <2>2, RingFill DEF ScheduleFill, RingInv, Scheduling
  <2>3. CASE SchedulePublish
    <3>1. Contents' = Append(Contents, event) /\ Len(Contents) < Capacity
          /\ event \in Event
      BY <2>0, <2>3, RingPublish DEF SchedulePublish, RingInv, Scheduling
    <3> QED
      BY <3>1 DEF Fifo!Next, Fifo!Enqueue
  <2>4. CASE RtFlushPop \/ RtTake
    <3>1. Contents' = Tail(Contents) /\ Size > 0
      BY <2>0, <2>4, RingPop DEF RtFlushPop, RtTake, RingInv
    <3>2. Contents # <<>>
      BY <2>0, <3>1
    <3> QED
      BY <3>1, <3>2 DEF Fifo!Next, Fifo!Dequeue
  <2> QED
    BY <2>1, <2>2, <2>3, <2>4, RingSteps
<1> QED
  BY <1>1, <1>2, Invariance, PTL DEF Spec, ImplementsFifo, Fifo!Spec

=============================================================================
