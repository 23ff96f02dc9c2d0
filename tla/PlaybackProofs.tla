-------------------------- MODULE PlaybackProofs --------------------------
(***************************************************************************)
(* That a quantum follows the timeline (WalkFollowsTimeline), for every    *)
(* tempo, loop, arrangement and quantum size: the two segments of a block, *)
(* with the offsets that wrap at Word, are the samples the playhead passes *)
(* one by one, and the transport goes on where they end; that the beats    *)
(* that click are those it passes (ClicksOnTheBeat); and that what sustains *)
(* in the synth is what the project says should sound (SoundsAsWritten),   *)
(* through edits, seeks and loops.                                         *)
(***************************************************************************)
EXTENDS Playback, SequenceTheorems, WellFoundedInduction, TLAPS

LoopType == [enabled : BOOLEAN, start : Nat, end : Nat]

\* The ids that notes are compiled to, and what the voices may hold.
NoteIds == Nat \X Nat \X Nat
VoiceStates == [1 .. VoiceCount -> NoteIds \union {NoNote}]
Sustaining(vs) == Range(vs) \ {NoNote}

EventType == [at : Nat, kind : {"NoteOn", "NoteOff"}, id : NoteIds]

PlaybackType ==
  /\ project \in ProjectType
  /\ deleted \subseteq ClipType
  /\ loop \in LoopType
  /\ position \in 0 .. MaxPos
  /\ voices \in VoiceStates

\* What the engine plays is what the project compiles to, as much as it holds.
TrackInv == track \in Tracked(project)

\* No two clips, present or deleted, and no two notes share an id.
IdInv ==
  /\ ClipsApart(project)
  /\ \A c \in deleted : c.id \in 1 .. project.next_clip_id - 1
  /\ \A c, d \in deleted : c.id = d.id => c = d
  /\ \A c \in deleted, k \in DOMAIN project.clips : c.id # project.clips[k].id
  /\ NotesApart(project.notes \union NotePool)

\* What sounds is in the project, and is held until its end, which is ahead.
SoundInv ==
  ~spoiled =>
    /\ Sustaining(voices) = {NoteId(project, i) : i \in sounding}
    /\ \A i \in sounding : i \in Instances(project) /\ EndsAhead(tempo, loop, position, i)

IInv == PlaybackType /\ TrackInv /\ IdInv /\ SoundInv

USE TimeAssumption, WordAssumption, FramesAssumption, ProjectsAssumption

-----------------------------------------------------------------------------
(* Arithmetic *)

\* Division rounds to a natural number.
LEMMA RoundedNat == ASSUME NEW a \in Nat, NEW b \in Nat \ {0}
                    PROVE  Rounded(a, b) \in Nat
BY DEF Rounded

\* A time in ticks has a sample, whatever the tempo.
LEMMA SampleNat == ASSUME NEW t \in Tempos, NEW ticks \in Nat
                   PROVE  Sample(t, ticks) \in Nat
<1>1. t[1] \in Nat \ {0} /\ t[2] \in Nat \ {0}
  OBVIOUS
<1>2. ticks * t[1] \in Nat /\ TicksPerBeat * t[2] \in Nat \ {0}
  BY <1>1, SMT
<1>. QED
  BY <1>2, RoundedNat DEF Sample

\* An offset below the word is not changed by it.
LEMMA ModBelow == ASSUME NEW w \in Nat \ {0}, NEW x \in 0 .. w - 1
                  PROVE  x % w = x
OBVIOUS

\* One that is negative by less than the word comes back at its upper end.
LEMMA ModAbove == ASSUME NEW w \in Nat \ {0}, NEW x \in -w .. -1
                  PROVE  x % w = x + w
OBVIOUS

\* What a quotient is between.
LEMMA DivBounds == ASSUME NEW a \in Nat, NEW m \in Nat \ {0}
                   PROVE  /\ a \div m \in Nat
                          /\ m * (a \div m) <= a /\ a < m * (a \div m) + m
OBVIOUS

\* The length of a range is its remainder 0.
LEMMA ModSelf == ASSUME NEW w \in Nat \ {0} PROVE w % w = 0
OBVIOUS

-----------------------------------------------------------------------------
(* The end of the song *)

\* A set of naturals has a least element.
LEMMA LeastNat == ASSUME NEW T \in SUBSET Nat, T # {}
                  PROVE  \E x \in T : \A y \in T : x <= y
<1>. DEFINE R == OpToRel(<, Nat)
<1>1. \A x, y \in Nat : x < y => <<x, y>> \in R
  BY Zenon DEF OpToRel
<1>2. IsWellFoundedOn(R, Nat)
  BY NatLessThanWellFounded, Zenon
<1>. HIDE DEF R
<1>3. PICK x \in T : \A y \in T : <<y, x>> \notin R
  BY <1>2, WFMin, Zenon
<1>4. \A y \in T : ~(y < x)
  BY <1>1, <1>3, Zenon
<1>. QED
  BY <1>3, <1>4

\* The naturals of a finite list, with 0, have a largest.
LEMMA LargestNat ==
  ASSUME NEW n \in Nat, NEW f, \A k \in 1 .. n : f[k] \in Nat
  PROVE  \E u \in {f[k] : k \in 1 .. n} \union {0} : \A k \in 1 .. n : f[k] <= u
<1>. DEFINE Has(m) == \E u \in {f[k] : k \in 1 .. m} \union {0} :
                         \A k \in 1 .. m : f[k] <= u
            Bad == {m \in 0 .. n : ~Has(m)}
<1>1. ASSUME Bad # {} PROVE FALSE
  <2>1. Bad \in SUBSET Nat
    OBVIOUS
  <2>2. PICK m \in Bad : \A y \in Bad : m <= y
    BY <1>1, <2>1, LeastNat
  <2>3. m # 0
    BY <2>2
  <2>4. m - 1 \in 0 .. n /\ m - 1 \notin Bad
    <3>1. m \in 0 .. n
      BY <2>2
    <3>. HIDE DEF Bad
    <3>. QED
      BY <2>2, <2>3, <3>1
  <2>5. PICK u \in {f[k] : k \in 1 .. m - 1} \union {0} : \A k \in 1 .. m - 1 : f[k] <= u
    BY <2>4
  <2>6. u \in Nat /\ f[m] \in Nat
    BY <2>2, <2>3, <2>5
  <2>7. CASE f[m] <= u
    <3>1. \A k \in 1 .. m : f[k] <= u
      BY <2>2, <2>5, <2>7
    <3>2. u \in {f[k] : k \in 1 .. m} \union {0}
      BY <2>2, <2>5
    <3>. QED
      BY <2>2, <3>1, <3>2
  <2>8. CASE u < f[m]
    <3>1. \A k \in 1 .. m : f[k] <= f[m]
      <4>1. TAKE k \in 1 .. m
      <4>2. f[k] \in Nat
        BY <2>2
      <4>. QED
        BY <2>2, <2>5, <2>6, <2>8, <4>2
    <3>2. f[m] \in {f[k] : k \in 1 .. m} \union {0}
      BY <2>2, <2>3
    <3>. QED
      BY <2>2, <3>1, <3>2
  <2>. QED
    BY <2>6, <2>7, <2>8
<1>2. n \notin Bad
  <2>. HIDE DEF Bad
  <2>. QED
    BY <1>1
<1>3. Has(n)
  <2>. HIDE DEF Has
  <2>. QED
    BY <1>2
<1>. QED
  BY <1>3

\* A project ends at a tick.
LEMMA EndTickNat == ASSUME NEW p \in ProjectType PROVE EndTick(p) \in Nat
<1>. DEFINE n == Len(p.clips)
            f == [k \in 1 .. n |-> ClipEnd(p.clips[k])]
            Ends == {f[k] : k \in 1 .. n} \union {0}
<1>1. p.clips \in Seq(ClipType) /\ n \in Nat /\ DOMAIN p.clips = 1 .. n
  BY DEF ProjectType
<1>2. \A k \in 1 .. n : p.clips[k] \in ClipType
  BY <1>1
<1>3. \A k \in 1 .. n : f[k] \in Nat
  BY <1>2 DEF ClipEnd, ClipType
<1>4. {ClipEnd(c) : c \in Range(p.clips)} \union {0} = Ends
  BY <1>1 DEF Range
<1>5. PICK u \in Ends : \A k \in 1 .. n : f[k] <= u
  <2>. HIDE DEF f
  <2>. QED
    BY <1>1, <1>3, LargestNat
<1>. HIDE DEF f
<1>6. \A v \in Ends : v <= u /\ v \in Nat
  BY <1>3, <1>5
<1>7. \E x \in Ends : \A v \in Ends : x >= v
  BY <1>5, <1>6
<1>8. Max(Ends) \in Ends
  BY <1>7 DEF Max
<1>. QED
  BY <1>4, <1>6, <1>8 DEF EndTick

\* So does the loop that a project opens with.
LEMMA LoopFitsProject ==
  ASSUME NEW p \in ProjectType
  PROVE  Max({4 * TicksPerBeat, EndTick(p)}) \in Nat
<1>1. EndTick(p) \in Nat /\ 4 * TicksPerBeat \in Nat
  BY EndTickNat
<1>. HIDE DEF EndTick
<1>2. \A a, b \in Nat : \E x \in {a, b} : \A v \in {a, b} : x >= v
  OBVIOUS
<1>3. \A a, b \in Nat : Max({a, b}) \in {a, b}
  BY <1>2 DEF Max
<1>. QED
  BY <1>1, <1>3

-----------------------------------------------------------------------------
(* What the compiler makes *)

\* An instance is a note in a repetition of a clip.
LEMMA InstanceParts ==
  ASSUME NEW p \in ProjectType, NEW i \in Instances(p)
  PROVE  /\ i[1] \in Range(p.clips) /\ i[1] \in ClipType
         /\ i[2] \in Nat /\ i[3] \in p.notes /\ i = <<i[1], i[2], i[3]>>
         /\ NoteStart(i) \in Nat /\ NoteEnd(i) \in Nat /\ ClipEnd(i[1]) \in Nat
<1>1. PICK c \in Audible(p) : i \in {c} \X Repeats(c) \X p.notes
  BY DEF Instances
<1>2. c \in ClipType /\ c \in Range(p.clips)
  BY <1>1 DEF Audible, Range, ProjectType
<1>3. i[1] = c /\ i[2] \in Repeats(c) /\ i[3] \in p.notes /\ i = <<i[1], i[2], i[3]>>
  BY <1>1
<1>4. c.start \in Nat /\ c.duration \in Nat /\ i[3] \in NoteType
  BY <1>2, <1>3 DEF ClipType, ProjectType
<1>5. i[2] \in Nat
  BY <1>3, <1>4 DEF Repeats
<1>6. i[3][2] \in Nat /\ i[3][3] \in Nat /\ i[2] * PatternLength \in Nat
  BY <1>4, <1>5 DEF NoteType
<1>7. NoteStart(i) \in Nat /\ NoteEnd(i) \in Nat /\ ClipEnd(c) \in Nat
  BY <1>3, <1>4, <1>6 DEF NoteStart, NoteEnd, ClipEnd
<1>. QED
  BY <1>2, <1>3, <1>5, <1>7

\* What the compiler is given has a sample and an id for each of its events.
LEMMA EventsTyped ==
  ASSUME NEW p \in ProjectType
  PROVE  Compiled(p) \subseteq EventType
<1>1. SUFFICES ASSUME NEW e \in Compiled(p) PROVE e \in EventType
  OBVIOUS
<1>2. PICK i \in Instances(p) :
        e \in {[at |-> OnSample(p.bpm, i), kind |-> "NoteOn", id |-> NoteId(p, i)],
               [at |-> OffSample(p.bpm, i), kind |-> "NoteOff", id |-> NoteId(p, i)]}
  BY DEF Compiled
<1>3. /\ i[1] \in ClipType /\ i[2] \in Nat /\ i[3] \in NoteType
      /\ NoteStart(i) \in Nat /\ NoteEnd(i) \in Nat /\ p.bpm \in Tempos
  BY InstanceParts DEF ProjectType
<1>4. OnSample(p.bpm, i) \in Nat /\ OffSample(p.bpm, i) \in Nat
  BY <1>3, SampleNat DEF OnSample, OffSample
<1>5. NoteId(p, i) \in NoteIds
  <2>1. i[1].id \in Nat /\ i[3][1] \in Nat
    BY <1>3 DEF ClipType, NoteType
  <2>. QED
    BY <1>3, <2>1 DEF NoteId, NoteIds
<1>. HIDE DEF EventType
<1>6. ASSUME NEW a \in Nat, NEW kind \in {"NoteOn", "NoteOff"}, NEW id \in NoteIds
      PROVE  [at |-> a, kind |-> kind, id |-> id] \in EventType
  BY DEF EventType
<1>. QED
  BY <1>2, <1>4, <1>5, <1>6

\* What a buffer keeps are events it is given, and all of them if it can.
LEMMA KeepsSome ==
  ASSUME NEW events, NEW n, NEW kept \in Keeps(events, n)
  PROVE  /\ kept \subseteq events
         /\ ~(Cardinality(events) > n) => kept = events
BY DEF Keeps, kSubset

\* The track has events of the project, and all of them if it can.
LEMMA TrackIsCompiled ==
  ASSUME TrackInv
  PROVE  /\ track \subseteq Compiled(project)
         /\ ~(Cardinality(Compiled(project)) > TrackCapacity) => track = Compiled(project)
BY KeepsSome DEF TrackInv, Tracked

\* The playhead stays behind the bound when a quantum moves it.
LEMMA NextPositionNat ==
  ASSUME PlaybackType, NEW n \in Frames
  PROVE  NextPosition(n) \in Nat
<1>1. project.bpm \in Tempos /\ loop.start \in Nat /\ loop.end \in Nat
  BY DEF PlaybackType, ProjectType, LoopType
<1>2. LoopStart \in Nat /\ LoopEnd \in Nat
  BY <1>1, SampleNat DEF LoopStart, LoopEnd, tempo
<1>3. CASE LoopActive /\ position + n >= LoopEnd
  <2>1. LoopEnd - LoopStart \in Nat \ {0} /\ position + n - LoopEnd \in Nat
    BY <1>2, <1>3 DEF LoopActive, PlaybackType
  <2>2. (position + n - LoopEnd) % (LoopEnd - LoopStart) \in Nat
    BY <2>1
  <2>. QED
    BY <1>2, <1>3, <2>2 DEF NextPosition
<1>4. CASE ~(LoopActive /\ position + n >= LoopEnd)
  BY <1>4 DEF NextPosition, PlaybackType
<1>. QED
  BY <1>3, <1>4

-----------------------------------------------------------------------------
(* One quantum *)

\* For a playhead P, a loop from S to E and a quantum of n samples: each of the
\* two segments takes the events of its samples and gives each the place it has
\* in the quantum, the wrapped offsets included, and the walk goes on at V(n).
SegmentsAreTheWalk(P, S, E, n) ==
  LET B == (E - P) % Word
      W == (n - B) % Word
      Entry0 == IF P >= E THEN S + (P - E) ELSE P
      V(k) == IF Entry0 + k >= E THEN S + ((Entry0 + k - E) % (E - S))
              ELSE Entry0 + k
  IN  /\ \A a \in P .. E - 1 : a - P \in 0 .. n - 1 /\ V(a - P) = a
      /\ \A a \in S .. S + W - 1 : (B + a - S) % Word < n =>
            /\ (B + a - S) % Word \in 0 .. n - 1
            /\ V((B + a - S) % Word) = a
      /\ \A k \in 0 .. n - 1 :
           \/ V(k) \in P .. E - 1 /\ k = V(k) - P
           \/ V(k) \in S .. S + W - 1 /\ k = (B + V(k) - S) % Word
      /\ S + ((P + n - E) % (E - S)) = V(n)

\* A quantum that reaches the loop's end and fits is walked by its segments.
LEMMA WalkArithmetic ==
  ASSUME NEW P \in 0 .. MaxPos, NEW S \in Nat, NEW E \in Nat, S < E,
         NEW n \in 1 .. Word - 1, P + n > E,
         IF P < E THEN P + n - E <= E - S ELSE S + (P - E) + n <= E
  PROVE  SegmentsAreTheWalk(P, S, E, n)
<1>. DEFINE B == (E - P) % Word
            W == (n - B) % Word
            Entry0 == IF P >= E THEN S + (P - E) ELSE P
            V(k) == IF Entry0 + k >= E THEN S + ((Entry0 + k - E) % (E - S))
                    ELSE Entry0 + k
<1>0. Word \in Nat \ {0} /\ E - S \in Nat \ {0} /\ MaxPos \in Nat
  OBVIOUS
<1>1. CASE P < E
  <2>1. B = E - P
    BY <1>1, <1>0
  <2>2. W = n - (E - P) /\ W \in Nat /\ W <= E - S
    BY <1>1, <2>1
  <2>3. \A k \in 0 .. E - P - 1 : V(k) = P + k
    BY <1>1
  <2>4. \A k \in E - P .. n - 1 : V(k) = S + (P + k - E)
    <3>1. TAKE k \in E - P .. n - 1
    <3>2. P + k - E \in 0 .. (E - S) - 1
      BY <1>1
    <3>3. (P + k - E) % (E - S) = P + k - E
      BY <1>0, <3>2, ModBelow
    <3>. QED
      BY <1>1, <3>3
  <2>5. \A a \in S .. S + W - 1 : (B + a - S) % Word = E - P + a - S
    <3>1. TAKE a \in S .. S + W - 1
    <3>2. B + a - S \in 0 .. Word - 1
      BY <1>1, <2>1, <2>2
    <3>. QED
      BY <1>0, <2>1, <3>2, ModBelow
  <2>6. \A a \in P .. E - 1 : a - P \in 0 .. n - 1 /\ V(a - P) = a
    <3>1. TAKE a \in P .. E - 1
    <3>2. a - P \in 0 .. E - P - 1
      BY <1>1
    <3>. QED
      BY <1>1, <2>3, <3>2
  <2>7. \A a \in S .. S + W - 1 : (B + a - S) % Word < n =>
          /\ (B + a - S) % Word \in 0 .. n - 1
          /\ V((B + a - S) % Word) = a
    <3>1. TAKE a \in S .. S + W - 1
    <3>2. E - P + a - S \in E - P .. n - 1
      BY <1>1, <2>2
    <3>. QED
      BY <1>1, <2>4, <2>5, <3>1, <3>2
  <2>8. \A k \in 0 .. n - 1 :
          \/ V(k) \in P .. E - 1 /\ k = V(k) - P
          \/ V(k) \in S .. S + W - 1 /\ k = (B + V(k) - S) % Word
    <3>1. TAKE k \in 0 .. n - 1
    <3>2. CASE k < E - P
      BY <1>1, <2>3, <3>2
    <3>3. CASE k >= E - P
      <4>1. V(k) = S + (P + k - E)
        BY <1>1, <2>4, <3>3
      <4>2. V(k) \in S .. S + W - 1
        BY <1>1, <2>2, <3>3, <4>1
      <4>3. (B + V(k) - S) % Word = E - P + V(k) - S
        BY <2>5, <4>2
      <4>. QED
        BY <4>1, <4>2, <4>3
    <3>. QED
      BY <3>2, <3>3
  <2>9. V(n) = S + ((P + n - E) % (E - S))
    BY <1>1
  <2>. QED
    BY <2>6, <2>7, <2>8, <2>9 DEF SegmentsAreTheWalk
<1>2. CASE P >= E
  <2>1. B = IF P = E THEN 0 ELSE Word - (P - E)
    BY <1>2, <1>0
  <2>2. W = n + (P - E)
    <3>1. CASE P = E
      BY <3>1, <2>1
    <3>2. CASE P > E
      <4>1. n - B = n + (P - E) - Word /\ n - B \in -Word .. -1
        BY <3>2, <1>2, <2>1
      <4>2. (n - B) % Word = (n - B) + Word
        BY <1>0, <4>1, ModAbove
      <4>. QED
        BY <4>1, <4>2
    <3>. QED
      BY <1>2, <3>1, <3>2
  <2>3. \A k \in 0 .. n - 1 : V(k) = S + (P - E) + k
    BY <1>2
  <2>4. \A a \in S .. S + W - 1 :
          (B + a - S) % Word = IF a - S >= P - E THEN a - S - (P - E)
                               ELSE Word - (P - E) + (a - S)
    <3>1. TAKE a \in S .. S + W - 1
    <3>2. CASE P = E
      BY <1>0, <2>1, <2>2, <3>2
    <3>3. CASE P > E /\ a - S >= P - E
      <4>1. B + a - S = Word + (a - S - (P - E)) /\ a - S - (P - E) \in 0 .. Word - 1
        BY <2>1, <2>2, <3>3
      <4>2. (Word + (a - S - (P - E))) % Word = a - S - (P - E)
        BY <1>0, <4>1
      <4>. QED
        BY <3>3, <4>1, <4>2
    <3>4. CASE P > E /\ a - S < P - E
      <4>1. B + a - S \in 0 .. Word - 1
        BY <2>1, <2>2, <3>4
      <4>2. (B + a - S) % Word = B + a - S
        BY <1>0, <4>1, ModBelow
      <4>3. B + a - S = Word - (P - E) + (a - S)
        BY <2>1, <3>4
      <4>. QED
        BY <3>4, <4>2, <4>3
    <3>. QED
      BY <1>2, <3>2, <3>3, <3>4
  <2>5. \A a \in P .. E - 1 : a - P \in 0 .. n - 1 /\ V(a - P) = a
    BY <1>2
  <2>6. \A a \in S .. S + W - 1 : (B + a - S) % Word < n =>
          /\ (B + a - S) % Word \in 0 .. n - 1
          /\ V((B + a - S) % Word) = a
    <3>1. TAKE a \in S .. S + W - 1
    <3>2. CASE a - S >= P - E
      <4>1. a - S - (P - E) \in 0 .. n - 1
        BY <1>2, <2>2, <3>2
      <4>2. V(a - S - (P - E)) = a
        BY <1>2, <2>3, <4>1
      <4>. QED
        BY <2>4, <3>1, <3>2, <4>1, <4>2
    <3>3. CASE a - S < P - E
      <4>1. Word - (P - E) + (a - S) >= n
        BY <1>2, <2>2, <3>3
      <4>. QED
        BY <2>4, <3>1, <3>3, <4>1
    <3>. QED
      BY <1>2, <3>2, <3>3
  <2>7. \A k \in 0 .. n - 1 :
          \/ V(k) \in P .. E - 1 /\ k = V(k) - P
          \/ V(k) \in S .. S + W - 1 /\ k = (B + V(k) - S) % Word
    <3>1. TAKE k \in 0 .. n - 1
    <3>2. V(k) = S + (P - E) + k
      BY <2>3
    <3>3. V(k) \in S .. S + W - 1
      BY <1>2, <2>2, <3>2
    <3>4. (B + V(k) - S) % Word = V(k) - S - (P - E)
      BY <1>2, <2>4, <3>2, <3>3
    <3>. QED
      BY <1>2, <3>2, <3>3, <3>4
  <2>8. V(n) = S + ((P + n - E) % (E - S))
    <3>1. P + n - E \in 0 .. E - S
      BY <1>2
    <3>2. CASE P + n - E = E - S
      <4>1. V(n) = S + (0 % (E - S)) /\ (E - S) % (E - S) = 0
        BY <1>0, <1>2, <3>2, ModSelf
      <4>2. 0 % (E - S) = 0
        BY <1>0
      <4>. QED
        BY <3>2, <4>1, <4>2
    <3>3. CASE P + n - E < E - S
      <4>1. (P + n - E) % (E - S) = P + n - E
        BY <1>0, <3>1, <3>3, ModBelow
      <4>2. V(n) = S + (P - E) + n
        BY <1>2, <3>3
      <4>. QED
        BY <1>2, <4>1, <4>2
    <3>. QED
      BY <3>1, <3>2, <3>3
  <2>. QED
    BY <2>5, <2>6, <2>7, <2>8 DEF SegmentsAreTheWalk
<1>. QED
  BY <1>1, <1>2

\* A block has, at each sample of the quantum, the events of the place the
\* playhead is at.
LEMMA QuantumFollows ==
  ASSUME PlaybackType, TrackInv, NEW n \in Frames, Fits(n)
  PROVE  /\ Block(n) = UNION {{EventAt(k, e) : e \in {f \in track : f.at = Visit(k)}} :
                                k \in 0 .. n - 1}
         /\ NextPosition(n) = Visit(n)
<1>. DEFINE Passed == UNION {{EventAt(k, e) : e \in {f \in track : f.at = Visit(k)}} :
                               k \in 0 .. n - 1}
<1>1. \A e \in track : e.at \in Nat
  BY EventsTyped, TrackIsCompiled DEF PlaybackType, EventType
<1>2. LoopStart \in Nat /\ LoopEnd \in Nat
  BY SampleNat DEF LoopStart, LoopEnd, tempo, PlaybackType, ProjectType, LoopType
<1>3. n \in 1 .. Word - 1 /\ position \in 0 .. MaxPos
  BY DEF PlaybackType
<1>4. CASE LoopActive /\ position + n > LoopEnd
  <2>. DEFINE B == (LoopEnd - position) % Word
              W == (n - B) % Word
              Entry0 == IF position >= LoopEnd THEN LoopStart + (position - LoopEnd)
                        ELSE position
              V(k) == IF Entry0 + k >= LoopEnd
                      THEN LoopStart + ((Entry0 + k - LoopEnd) % (LoopEnd - LoopStart))
                      ELSE Entry0 + k
  <2>1. LoopStart < LoopEnd
    BY <1>4 DEF LoopActive
  <2>2. IF position < LoopEnd THEN position + n - LoopEnd <= LoopEnd - LoopStart
        ELSE LoopStart + (position - LoopEnd) + n <= LoopEnd
    BY <1>2, <1>3, <1>4 DEF Fits, Entry
  <2>3. /\ \A a \in position .. LoopEnd - 1 : a - position \in 0 .. n - 1 /\ V(a - position) = a
        /\ \A a \in LoopStart .. LoopStart + W - 1 : (B + a - LoopStart) % Word < n =>
              /\ (B + a - LoopStart) % Word \in 0 .. n - 1
              /\ V((B + a - LoopStart) % Word) = a
        /\ \A k \in 0 .. n - 1 :
             \/ V(k) \in position .. LoopEnd - 1 /\ k = V(k) - position
             \/ V(k) \in LoopStart .. LoopStart + W - 1 /\ k = (B + V(k) - LoopStart) % Word
        /\ LoopStart + ((position + n - LoopEnd) % (LoopEnd - LoopStart)) = V(n)
    <3>1. SegmentsAreTheWalk(position, LoopStart, LoopEnd, n)
      BY <1>2, <1>3, <1>4, <2>1, <2>2, WalkArithmetic
    <3>. QED
      BY <3>1 DEF SegmentsAreTheWalk
  <2>4. Boundary = B /\ WrappedFrames(n) = W
    BY DEF Boundary, WrappedFrames
  <2>5. \A k : Visit(k) = V(k)
    BY <1>4 DEF Visit, Entry
  <2>6. B \in Int /\ W \in Int
    BY <1>2, <1>3
  <2>7. Block(n) = Segment(position, LoopEnd) \union WrappedSegment(n)
    BY <1>4 DEF Block, Wraps
  <2>. HIDE DEF V, B, W
  <2>8. Segment(position, LoopEnd) \subseteq Passed
    <3>1. ASSUME NEW x \in Segment(position, LoopEnd) PROVE x \in Passed
      <4>1. PICK e \in track : /\ e.at >= position /\ e.at < LoopEnd
                               /\ x = EventAt(e.at - position, e)
        BY <3>1 DEF Segment
      <4>2. e.at \in position .. LoopEnd - 1
        BY <1>1, <1>2, <1>3, <4>1
      <4>3. e.at - position \in 0 .. n - 1 /\ Visit(e.at - position) = e.at
        BY <2>3, <2>5, <4>2
      <4>. QED
        BY <4>1, <4>3
    <3>. QED
      BY <3>1
  <2>9. WrappedSegment(n) \subseteq Passed
    <3>1. ASSUME NEW x \in WrappedSegment(n) PROVE x \in Passed
      <4>1. PICK e \in track : /\ e.at >= LoopStart /\ e.at < LoopStart + W
                               /\ (B + e.at - LoopStart) % Word < n
                               /\ x = EventAt((B + e.at - LoopStart) % Word, e)
        BY <2>4, <3>1 DEF WrappedSegment
      <4>2. e.at \in LoopStart .. LoopStart + W - 1
        BY <1>1, <1>2, <2>6, <4>1
      <4>3. /\ (B + e.at - LoopStart) % Word \in 0 .. n - 1
            /\ Visit((B + e.at - LoopStart) % Word) = e.at
        BY <2>3, <2>5, <4>1, <4>2
      <4>. QED
        BY <4>1, <4>3
    <3>. QED
      BY <3>1
  <2>10. Passed \subseteq Segment(position, LoopEnd) \union WrappedSegment(n)
    <3>1. ASSUME NEW k \in 0 .. n - 1, NEW e \in track, e.at = Visit(k)
          PROVE  EventAt(k, e) \in Segment(position, LoopEnd) \union WrappedSegment(n)
      <4>1. CASE V(k) \in position .. LoopEnd - 1 /\ k = V(k) - position
        <5>1. e.at >= position /\ e.at < LoopEnd /\ k = e.at - position
          BY <1>1, <1>2, <1>3, <2>5, <3>1, <4>1
        <5>. QED
          BY <5>1 DEF Segment
      <4>2. CASE V(k) \in LoopStart .. LoopStart + W - 1 /\ k = (B + V(k) - LoopStart) % Word
        <5>1. /\ e.at >= LoopStart /\ e.at < LoopStart + W
              /\ k = (B + e.at - LoopStart) % Word /\ k < n
          BY <1>1, <1>2, <1>3, <2>5, <2>6, <3>1, <4>2
        <5>. QED
          BY <2>4, <5>1 DEF WrappedSegment
      <4>. QED
        BY <2>3, <3>1, <4>1, <4>2
    <3>. QED
      BY <3>1
  <2>11. NextPosition(n) = Visit(n)
    BY <1>2, <1>3, <1>4, <2>3, <2>5 DEF NextPosition
  <2>. QED
    BY <2>7, <2>8, <2>9, <2>10, <2>11
<1>5. CASE ~(LoopActive /\ position + n > LoopEnd)
  <2>1. Block(n) = Segment(position, position + n)
    BY <1>5 DEF Block, Wraps
  <2>2. \A k \in 0 .. n - 1 : Visit(k) = position + k
    BY <1>2, <1>3, <1>5 DEF Visit, Entry
  <2>3. Segment(position, position + n) \subseteq Passed
    <3>1. ASSUME NEW x \in Segment(position, position + n) PROVE x \in Passed
      <4>1. PICK e \in track : /\ e.at >= position /\ e.at < position + n
                               /\ x = EventAt(e.at - position, e)
        BY <3>1 DEF Segment
      <4>2. e.at - position \in 0 .. n - 1 /\ Visit(e.at - position) = e.at
        BY <1>1, <1>3, <2>2, <4>1
      <4>. QED
        BY <4>1, <4>2
    <3>. QED
      BY <3>1
  <2>4. Passed \subseteq Segment(position, position + n)
    <3>1. ASSUME NEW k \in 0 .. n - 1, NEW e \in track, e.at = Visit(k)
          PROVE  EventAt(k, e) \in Segment(position, position + n)
      <4>1. e.at >= position /\ e.at < position + n /\ k = e.at - position
        BY <1>1, <1>3, <2>2, <3>1
      <4>. QED
        BY <4>1 DEF Segment
    <3>. QED
      BY <3>1
  <2>5. NextPosition(n) = Visit(n)
    BY <1>2, <1>3, <1>5 DEF NextPosition, Visit, Entry, LoopActive
  <2>. QED
    BY <2>1, <2>3, <2>4, <2>5
<1>. QED
  BY <1>4, <1>5

-----------------------------------------------------------------------------
(* Beats *)

\* The sample of a beat, and the tick of a sample, without their divisions: a
\* beat has P = TicksPerBeat * t[2] parts to the sample.
LEMMA BeatSample ==
  ASSUME NEW t \in Tempos, NEW b \in Nat
  PROVE  LET P == TicksPerBeat * t[2]
             X == (b * TicksPerBeat) * t[1]
             s == Sample(t, b * TicksPerBeat)
         IN  /\ P \in Nat \ {0} /\ X \in Nat /\ s \in Nat
             /\ 2 * (P * s) <= 2 * X + P
             /\ 2 * X + P < 2 * (P * s) + 2 * P
<1>. DEFINE P == TicksPerBeat * t[2]
            X == (b * TicksPerBeat) * t[1]
            s == Sample(t, b * TicksPerBeat)
<1>1. t[1] \in Nat \ {0} /\ t[2] \in Nat \ {0}
  OBVIOUS
<1>2. b * TicksPerBeat \in Nat
  OBVIOUS
<1>3. P \in Nat \ {0} /\ X \in Nat
  BY <1>1, <1>2
<1>4. s = (2 * X + P) \div (2 * P)
  BY DEF Sample, Rounded
<1>5. s \in Nat
  BY <1>2, SampleNat
<1>. HIDE DEF P, X, s
<1>6. (2 * P) * s <= 2 * X + P /\ 2 * X + P < (2 * P) * s + 2 * P
  <2>1. 2 * X + P \in Nat /\ 2 * P \in Nat \ {0}
    BY <1>3
  <2>2. ASSUME NEW a \in Nat, NEW m \in Nat \ {0}, s = a \div m
        PROVE  m * s <= a /\ a < m * s + m
    BY <2>2, DivBounds
  <2>. QED
    BY <1>4, <2>1, <2>2
<1>7. (2 * P) * s = 2 * (P * s)
  BY <1>3, <1>5
<1>8. 2 * (P * s) <= 2 * X + P /\ 2 * X + P < 2 * (P * s) + 2 * P
  BY <1>6, <1>7
<1>. QED
  BY <1>3, <1>5, <1>8 DEF P, X, s

\* The same of the tick of a sample.
LEMMA TickOfSample ==
  ASSUME NEW t \in Tempos, NEW s \in Nat
  PROVE  LET P == TicksPerBeat * t[2]
             q == Ticks(t, s)
         IN  /\ q \in Nat
             /\ 2 * (t[1] * q) <= 2 * (s * P) + t[1]
             /\ 2 * (s * P) + t[1] < 2 * (t[1] * q) + 2 * t[1]
<1>. DEFINE P == TicksPerBeat * t[2]
            n == t[1]
            q == Ticks(t, s)
<1>1. n \in Nat \ {0} /\ t[2] \in Nat \ {0}
  OBVIOUS
<1>2. P \in Nat \ {0}
  BY <1>1
<1>3. q = (2 * (s * P) + n) \div (2 * n)
  <2>1. s * TicksPerBeat * t[2] = s * P
    BY <1>1
  <2>. QED
    BY <2>1 DEF Ticks, Rounded
<1>. HIDE DEF P, n, q
<1>4. s * P \in Nat
  BY <1>2
<1>5. q \in Nat
  BY <1>1, <1>3, <1>4
<1>6. (2 * n) * q <= 2 * (s * P) + n /\ 2 * (s * P) + n < (2 * n) * q + 2 * n
  <2>1. 2 * (s * P) + n \in Nat /\ 2 * n \in Nat \ {0}
    BY <1>1, <1>4
  <2>2. ASSUME NEW a \in Nat, NEW m \in Nat \ {0}, q = a \div m
        PROVE  m * q <= a /\ a < m * q + m
    BY <2>2, DivBounds
  <2>. QED
    BY <1>3, <2>1, <2>2
<1>7. (2 * n) * q = 2 * (n * q)
  BY <1>1, <1>5
<1>8. 2 * (n * q) <= 2 * (s * P) + n /\ 2 * (s * P) + n < 2 * (n * q) + 2 * n
  BY <1>6, <1>7
<1>. QED
  BY <1>5, <1>8 DEF P, n, q

\* A factor keeps an order.
LEMMA TimesKeepsOrder ==
  ASSUME NEW a \in Int, NEW b \in Int, a <= b, NEW c \in Nat
  PROVE  a * c <= b * c
OBVIOUS

\* The window from lo to hi has every beat whose sample lies in it: neither
\* rounding loses one, since a beat lasts a sample at least.
LEMMA WindowHasBeats ==
  ASSUME project.bpm \in Tempos, NEW lo \in Nat, NEW hi \in Nat
  PROVE  Window(lo, hi) = {b \in Nat : Sample(tempo, b * TicksPerBeat) \in lo .. hi - 1}
<1>. DEFINE T == TicksPerBeat
            n == tempo[1]
            P == T * tempo[2]
            first == Ticks(tempo, lo)
            last == Ticks(tempo, hi)
<1>1. tempo \in Tempos /\ n \in Nat \ {0} /\ tempo[2] \in Nat \ {0} /\ tempo[2] <= n
  BY DEF tempo
<1>2. T \in Nat /\ T >= 2 /\ P \in Nat \ {0} /\ P <= T * n
  <2>1. tempo[2] * T <= n * T
    BY <1>1, TimesKeepsOrder
  <2>. QED
    BY <1>1, <2>1
<1>3. /\ first \in Nat /\ 2 * (n * first) <= 2 * (lo * P) + n
      /\ last \in Nat /\ 2 * (hi * P) + n < 2 * (n * last) + 2 * n
  BY <1>1, TickOfSample
<1>4. ASSUME NEW b \in Nat, NEW s \in Nat, s = Sample(tempo, b * T), s >= lo, s < hi
      PROVE  b >= first \div T /\ b <= (last + T - 1) \div T
  <2>. DEFINE X == (b * T) * n
  <2>1. X \in Nat /\ 2 * (P * s) <= 2 * X + P /\ 2 * X + P < 2 * (P * s) + 2 * P
    BY <1>1, <1>4, BeatSample
  <2>2. b * T \in Nat
    BY <1>2
  <2>3. first < b * T + T
    <3>1. SUFFICES ASSUME first >= b * T + T PROVE FALSE
      BY <1>2, <1>3, <2>2
    <3>2. (b * T + T) * n <= first * n
      BY <1>1, <1>2, <1>3, <2>2, <3>1, TimesKeepsOrder
    <3>3. (b * T + T) * n = X + T * n
      BY <1>1, <1>2, <2>2
    <3>4. lo * P <= s * P
      BY <1>2, <1>4, TimesKeepsOrder
    <3>5. s * P = P * s /\ first * n = n * first
      BY <1>1, <1>2, <1>3
    <3>6. 2 * n <= T * n
      BY <1>1, <1>2, TimesKeepsOrder
    <3>. DEFINE Ps == P * s
                loP == lo * P
                nf == n * first
                Tn == T * n
    <3>7. Ps \in Nat /\ loP \in Nat /\ nf \in Nat /\ Tn \in Nat
      BY <1>1, <1>2, <1>3
    <3>8. X + Tn <= nf /\ loP <= Ps
      BY <3>2, <3>3, <3>4, <3>5
    <3>9. 2 * nf <= 2 * loP + n /\ 2 * Ps <= 2 * X + P /\ P <= Tn /\ 2 * n <= Tn
      BY <1>2, <1>3, <2>1, <3>6
    <3>10. n \in Nat \ {0} /\ P \in Nat /\ X \in Nat
      BY <1>1, <1>2, <2>1
    <3>. HIDE DEF X, P, T, n, Ps, loP, nf, Tn
    <3>. QED
      BY <3>7, <3>8, <3>9, <3>10
  <2>4. b * T <= last + T - 1
    <3>1. SUFFICES ASSUME last + T <= b * T PROVE FALSE
      BY <1>2, <1>3, <2>2
    <3>2. (last + T) * n <= (b * T) * n
      BY <1>1, <1>2, <1>3, <2>2, <3>1, TimesKeepsOrder
    <3>3. (last + T) * n = n * last + T * n
      BY <1>1, <1>2, <1>3
    <3>4. (s + 1) * P <= hi * P
      BY <1>2, <1>4, TimesKeepsOrder
    <3>5. (s + 1) * P = P * s + P
      BY <1>2, <1>4
    <3>6. 2 * n <= T * n
      BY <1>1, <1>2, TimesKeepsOrder
    <3>. DEFINE Ps == P * s
                hiP == hi * P
                nl == n * last
                Tn == T * n
    <3>7. Ps \in Nat /\ hiP \in Nat /\ nl \in Nat /\ Tn \in Nat
      BY <1>1, <1>2, <1>3
    <3>8. nl + Tn <= X /\ Ps + P <= hiP
      BY <3>2, <3>3, <3>4, <3>5
    <3>9. 2 * hiP + n < 2 * nl + 2 * n /\ 2 * X + P < 2 * Ps + 2 * P /\ 2 * n <= Tn
      BY <1>3, <2>1, <3>6
    <3>10. n \in Nat \ {0} /\ P \in Nat /\ X \in Nat
      BY <1>1, <1>2, <2>1
    <3>. HIDE DEF X, P, T, n, Ps, hiP, nl, Tn
    <3>. QED
      BY <3>7, <3>8, <3>9, <3>10
  <2>5. first \div T <= b
    <3>1. \A a \in Nat, m \in Nat \ {0}, c \in Nat : a < c * m + m => a \div m <= c
      OBVIOUS
    <3>. QED
      BY <1>2, <1>3, <2>3, <3>1
  <2>6. b <= (last + T - 1) \div T
    <3>1. \A a \in Nat, m \in Nat \ {0}, c \in Nat : c * m <= a => c <= a \div m
      OBVIOUS
    <3>2. last + T - 1 \in Nat
      BY <1>2, <1>3
    <3>. QED
      BY <1>2, <2>4, <3>1, <3>2
  <2>. QED
    BY <2>5, <2>6
<1>5. first \div T \in Nat /\ (last + T - 1) \div T \in Nat
  BY <1>2, <1>3
<1>6. \A b \in Nat : Sample(tempo, b * T) \in Nat
  BY <1>1, <1>2, SampleNat
<1>7. Window(lo, hi) = {b \in first \div T .. (last + T - 1) \div T :
                          Sample(tempo, b * T) >= lo /\ Sample(tempo, b * T) < hi}
  BY DEF Window
<1>. HIDE DEF first, last
<1>8. ASSUME NEW b \in Window(lo, hi)
      PROVE  b \in Nat /\ Sample(tempo, b * T) \in lo .. hi - 1
  BY <1>5, <1>6, <1>7
<1>9. ASSUME NEW b \in Nat, Sample(tempo, b * T) \in lo .. hi - 1
      PROVE  b \in Window(lo, hi)
  <2>1. b >= first \div T /\ b <= (last + T - 1) \div T
    BY <1>4, <1>6, <1>9
  <2>2. b \in first \div T .. (last + T - 1) \div T
    BY <1>5, <2>1
  <2>. QED
    BY <1>7, <1>9, <2>2
<1>. QED
  BY <1>8, <1>9

\* The largest of a window is in it.
LEMMA WindowHasLargest ==
  ASSUME NEW W \in SUBSET Nat, W # {}, NEW hi \in Nat, \A b \in W : b <= hi
  PROVE  Max(W) \in W
<1>. DEFINE Bounds == {u \in Nat : \A b \in W : b <= u}
<1>1. Bounds \in SUBSET Nat /\ Bounds # {}
  OBVIOUS
<1>2. PICK u \in Bounds : \A y \in Bounds : u <= y
  <2>. HIDE DEF Bounds
  <2>. QED
    BY <1>1, LeastNat
<1>3. u \in Nat /\ \A b \in W : b <= u
  BY <1>2
<1>4. u \in W
  <2>1. SUFFICES ASSUME u \notin W PROVE FALSE
    OBVIOUS
  <2>2. u # 0
    <3>1. PICK w \in W : w \in Nat /\ w <= u /\ w # u
      BY <1>3, <2>1
    <3>. QED
      BY <1>3, <3>1
  <2>3. u - 1 \in Nat /\ \A b \in W : b <= u - 1
    BY <1>3, <2>1, <2>2
  <2>. QED
    BY <1>2, <1>3, <2>3
<1>5. \E x \in W : \A y \in W : x >= y
  BY <1>3, <1>4
<1>. QED
  BY <1>5 DEF Max

\* A beat is not before its own number of samples.
LEMMA BeatsAreSamplesApart ==
  ASSUME project.bpm \in Tempos, NEW b \in Nat
  PROVE  b <= Sample(tempo, b * TicksPerBeat)
<1>. DEFINE n == tempo[1]
            P == TicksPerBeat * tempo[2]
            X == (b * TicksPerBeat) * n
            s == Sample(tempo, b * TicksPerBeat)
<1>1. tempo \in Tempos /\ n \in Nat \ {0} /\ tempo[2] \in Nat \ {0} /\ tempo[2] <= n
  BY DEF tempo
<1>2. /\ P \in Nat \ {0} /\ X \in Nat /\ s \in Nat
      /\ 2 * X + P < 2 * (P * s) + 2 * P
  BY <1>1, BeatSample
<1>3. X >= P * b
  <2>1. b * TicksPerBeat \in Nat
    OBVIOUS
  <2>2. tempo[2] * (b * TicksPerBeat) <= n * (b * TicksPerBeat)
    BY <1>1, <2>1, TimesKeepsOrder
  <2>3. tempo[2] * (b * TicksPerBeat) = P * b
    BY <1>1
  <2>4. n * (b * TicksPerBeat) = X
    BY <1>1, <2>1
  <2>. QED
    BY <2>2, <2>3, <2>4
<1>. HIDE DEF P, X, s, n
<1>4. P * b \in Nat /\ P * s \in Nat
  BY <1>2
<1>5. P * b < P * s + P
  BY <1>2, <1>3, <1>4
<1>6. s < b => P * s + P <= P * b
  <2>1. ASSUME s < b PROVE P * s + P <= P * b
    <3>1. (s + 1) * P <= b * P
      BY <1>2, <2>1, TimesKeepsOrder
    <3>2. (s + 1) * P = P * s + P /\ b * P = P * b
      BY <1>2
    <3>. QED
      BY <3>1, <3>2
  <2>. QED
    BY <2>1
<1>7. ~(s < b)
  BY <1>4, <1>5, <1>6, <1>2
<1>8. b <= s
  BY <1>2, <1>7
<1>. QED
  BY <1>8 DEF s

\* The windows of a quantum are the beats it passes, and those it skips behind
\* the loop's end.
LEMMA WindowsArePassed ==
  ASSUME PlaybackType, NEW n \in Frames, Fits(n)
  PROVE  FirstWindow(n) \union SecondWindow(n)
           = {b \in 0 .. position + n :
                \E k \in 0 .. n - 1 : Visit(k) = Sample(tempo, b * TicksPerBeat)}
             \union Skipped
<1>. DEFINE passed == {b \in 0 .. position + n :
                         \E k \in 0 .. n - 1 : Visit(k) = Sample(tempo, b * TicksPerBeat)}
            at(b) == Sample(tempo, b * TicksPerBeat)
<1>1. project.bpm \in Tempos
  BY DEF PlaybackType, ProjectType
<1>2. LoopStart \in Nat /\ LoopEnd \in Nat
  BY SampleNat DEF LoopStart, LoopEnd, tempo, PlaybackType, ProjectType, LoopType
<1>3. n \in 1 .. Word - 1 /\ position \in 0 .. MaxPos /\ position \in Nat
  BY DEF PlaybackType
<1>4. \A b \in Nat : at(b) \in Nat /\ b <= at(b)
  BY <1>1, SampleNat, BeatsAreSamplesApart DEF tempo
<1>. HIDE DEF at
<1>5. CASE LoopActive /\ position < LoopEnd /\ position + n > LoopEnd
  <2>0. Skipped = {}
    BY <1>2, <1>3, <1>5 DEF Skipped
  <2>. DEFINE W == WrappedFrames(n)
  <2>1. position < LoopEnd /\ LoopStart < LoopEnd /\ position + n - LoopEnd <= LoopEnd - LoopStart
    BY <1>2, <1>3, <1>5 DEF LoopActive, Fits
  <2>2. Boundary = LoopEnd - position
    <3>1. LoopEnd - position \in 0 .. Word - 1
      BY <1>2, <1>3, <1>5, <2>1
    <3>. QED
      BY <3>1, ModBelow DEF Boundary
  <2>3. W = position + n - LoopEnd
    <3>1. n - (LoopEnd - position) \in 0 .. Word - 1
      BY <1>2, <1>3, <1>5, <2>1
    <3>2. (n - (LoopEnd - position)) % Word = n - (LoopEnd - position)
      BY <3>1, ModBelow
    <3>. QED
      BY <1>2, <1>3, <2>2, <3>2 DEF WrappedFrames
  <2>4. FirstWindow(n) = {b \in Nat : at(b) \in position .. LoopEnd - 1}
    BY <1>1, <1>2, <1>3, <1>5, WindowHasBeats DEF FirstWindow, Wraps, at
  <2>5. SecondWindow(n) = {b \in Nat : at(b) \in LoopStart .. LoopStart + W - 1}
    <3>. DEFINE hi == LoopStart + W
    <3>1. hi \in Nat
      BY <1>2, <1>3, <1>5, <2>3
    <3>2. SecondWindow(n) = Window(LoopStart, hi)
      BY <1>5 DEF SecondWindow, Wraps
    <3>. HIDE DEF hi
    <3>3. Window(LoopStart, hi)
            = {b \in Nat : Sample(tempo, b * TicksPerBeat) \in LoopStart .. hi - 1}
      BY <1>1, <1>2, <3>1, WindowHasBeats
    <3>4. {b \in Nat : Sample(tempo, b * TicksPerBeat) \in LoopStart .. hi - 1}
            = {b \in Nat : at(b) \in LoopStart .. hi - 1}
      BY DEF at
    <3>5. SecondWindow(n) = {b \in Nat : at(b) \in LoopStart .. hi - 1}
      BY <3>2, <3>3, <3>4
    <3>6. hi - 1 = LoopStart + W - 1
      <4>1. W \in Int
        BY <1>2, <1>3, <2>3
      <4>. QED
        BY <1>2, <4>1 DEF hi
    <3>. QED
      BY <3>5, <3>6
  <2>6. \A k \in 0 .. n - 1 :
          Visit(k) = IF k < LoopEnd - position THEN position + k
                     ELSE LoopStart + (position + k - LoopEnd)
    <3>1. TAKE k \in 0 .. n - 1
    <3>2. CASE k < LoopEnd - position
      BY <1>2, <1>3, <1>5, <2>1, <3>2 DEF Visit, Entry
    <3>3. CASE k >= LoopEnd - position
      <4>1. position + k - LoopEnd \in 0 .. (LoopEnd - LoopStart) - 1
        BY <1>2, <1>3, <2>1, <3>3
      <4>2. LoopEnd - LoopStart \in Nat \ {0}
        BY <1>2, <2>1
      <4>3. (position + k - LoopEnd) % (LoopEnd - LoopStart) = position + k - LoopEnd
        BY <4>1, <4>2, ModBelow
      <4>. QED
        BY <1>2, <1>3, <1>5, <2>1, <3>3, <4>3 DEF Visit, Entry
    <3>. QED
      BY <1>2, <1>3, <3>2, <3>3
  <2>. HIDE DEF W
  <2>7. ASSUME NEW b \in passed PROVE b \in FirstWindow(n) \union SecondWindow(n)
    <3>1. PICK k \in 0 .. n - 1 : Visit(k) = at(b)
      BY DEF at
    <3>2. b \in Nat
      BY <1>3
    <3>3. \/ at(b) \in position .. LoopEnd - 1
          \/ at(b) \in LoopStart .. LoopStart + W - 1
      BY <1>2, <1>3, <2>1, <2>3, <2>6, <3>1
    <3>. QED
      BY <2>4, <2>5, <3>2, <3>3
  <2>8. ASSUME NEW b \in Nat, at(b) \in position .. LoopEnd - 1 PROVE b \in passed
    <3>1. at(b) - position \in 0 .. n - 1 /\ Visit(at(b) - position) = at(b)
      BY <1>2, <1>3, <1>5, <2>1, <2>6, <2>8
    <3>2. b \in 0 .. position + n
      BY <1>2, <1>3, <1>4, <1>5, <2>8
    <3>. QED
      BY <3>1, <3>2 DEF at
  <2>9. ASSUME NEW b \in Nat, at(b) \in LoopStart .. LoopStart + W - 1 PROVE b \in passed
    <3>. DEFINE k == at(b) - LoopStart + LoopEnd - position
    <3>1. k \in 0 .. n - 1 /\ Visit(k) = at(b)
      BY <1>2, <1>3, <2>1, <2>3, <2>6, <2>9
    <3>2. b \in 0 .. position + n
      BY <1>2, <1>3, <1>4, <2>1, <2>3, <2>9
    <3>. QED
      BY <3>1, <3>2 DEF at
  <2>. HIDE DEF passed
  <2>. QED
    BY <2>0, <2>4, <2>5, <2>7, <2>8, <2>9 DEF passed
<1>6. CASE ~(LoopActive /\ position + n > LoopEnd)
  <2>1. FirstWindow(n) = {b \in Nat : at(b) \in position .. position + n - 1}
    BY <1>1, <1>3, <1>6, WindowHasBeats DEF FirstWindow, Wraps, at
  <2>2. SecondWindow(n) = {} /\ Skipped = {}
    BY <1>2, <1>3, <1>6 DEF SecondWindow, Wraps, Skipped
  <2>3. \A k \in 0 .. n - 1 : Visit(k) = position + k
    BY <1>2, <1>3, <1>6 DEF Visit, Entry
  <2>4. ASSUME NEW b \in passed PROVE b \in FirstWindow(n)
    BY <1>3, <2>1, <2>3, <2>4 DEF at
  <2>5. ASSUME NEW b \in Nat, at(b) \in position .. position + n - 1 PROVE b \in passed
    <3>1. at(b) - position \in 0 .. n - 1 /\ Visit(at(b) - position) = at(b)
      BY <1>3, <2>3, <2>5
    <3>2. b \in 0 .. position + n
      BY <1>3, <1>4, <2>5
    <3>. QED
      BY <3>1, <3>2 DEF at
  <2>. HIDE DEF passed
  <2>. QED
    BY <2>1, <2>2, <2>4, <2>5 DEF passed
<1>7. CASE LoopActive /\ position >= LoopEnd
  <2>. DEFINE hi == Entry + n
  <2>1. /\ LoopStart < LoopEnd /\ Entry = LoopStart + (position - LoopEnd)
        /\ Entry \in Nat /\ hi \in Nat /\ hi <= LoopEnd
    BY <1>2, <1>3, <1>7 DEF LoopActive, Entry, Fits
  <2>2. WrappedFrames(n) = n + (position - LoopEnd)
    <3>1. CASE position = LoopEnd
      <4>1. Boundary = 0
        BY <1>2, <1>3, <3>1 DEF Boundary
      <4>2. n \in 0 .. Word - 1
        BY <1>3
      <4>. QED
        BY <1>2, <1>3, <3>1, <4>1, <4>2, ModBelow DEF WrappedFrames
    <3>2. CASE position > LoopEnd
      <4>1. LoopEnd - position \in -Word .. -1
        BY <1>2, <1>3, <3>2
      <4>2. Boundary = (LoopEnd - position) + Word
        BY <4>1, ModAbove DEF Boundary
      <4>3. n - Boundary \in -Word .. -1
        <5>1. n + (position - LoopEnd) <= LoopEnd
          BY <1>2, <1>3, <2>1
        <5>. QED
          BY <1>2, <1>3, <3>2, <4>2, <5>1, WordAssumption
      <4>4. (n - Boundary) % Word = (n - Boundary) + Word
        BY <4>3, ModAbove
      <4>. QED
        BY <1>2, <1>3, <4>2, <4>4 DEF WrappedFrames
    <3>. QED
      BY <1>2, <1>3, <1>7, <3>1, <3>2
  <2>3. Wraps(n) /\ LoopStart + WrappedFrames(n) = hi
    BY <1>2, <1>3, <1>7, <2>1, <2>2 DEF Wraps
  <2>. HIDE DEF hi
  <2>4. FirstWindow(n) = {}
    <3>1. FirstWindow(n) = {b \in Nat : at(b) \in position .. LoopEnd - 1}
      BY <1>1, <1>2, <1>3, <2>3, WindowHasBeats DEF FirstWindow, at
    <3>. QED
      BY <1>2, <1>3, <1>7, <3>1
  <2>5. SecondWindow(n) = {b \in Nat : at(b) \in LoopStart .. hi - 1}
    BY <1>1, <1>2, <2>1, <2>3, WindowHasBeats DEF SecondWindow, at
  <2>6. \A k \in 0 .. n - 1 : Visit(k) = Entry + k
    <3>1. TAKE k \in 0 .. n - 1
    <3>2. Entry + k < LoopEnd
      BY <1>2, <1>3, <2>1 DEF hi
    <3>. QED
      BY <1>2, <1>3, <2>1, <3>2 DEF Visit
  <2>7. ASSUME NEW b \in passed PROVE b \in Nat /\ at(b) \in LoopStart .. hi - 1
    <3>1. PICK k \in 0 .. n - 1 : Visit(k) = at(b)
      BY DEF at
    <3>2. b \in Nat
      BY <1>3
    <3>. QED
      BY <1>2, <1>3, <1>7, <2>1, <2>6, <3>1, <3>2 DEF hi
  <2>8. Skipped = {b \in 0 .. Entry : at(b) \in LoopStart .. Entry - 1}
    BY <1>7 DEF Skipped, at
  <2>9. ASSUME NEW b \in Nat, at(b) \in LoopStart .. hi - 1
        PROVE  b \in passed \/ b \in Skipped
    <3>1. CASE at(b) < Entry
      <4>1. b \in 0 .. Entry
        BY <1>4, <2>1, <3>1
      <4>. QED
        BY <1>2, <1>4, <2>1, <2>8, <2>9, <3>1, <4>1
    <3>2. CASE at(b) >= Entry
      <4>1. at(b) - Entry \in 0 .. n - 1 /\ Visit(at(b) - Entry) = at(b)
        BY <1>2, <1>3, <1>4, <2>1, <2>6, <2>9, <3>2 DEF hi
      <4>2. b \in 0 .. position + n
        BY <1>2, <1>3, <1>4, <1>7, <2>1, <2>9 DEF hi
      <4>. QED
        BY <4>1, <4>2 DEF at
    <3>. QED
      BY <1>4, <2>1, <3>1, <3>2
  <2>10. ASSUME NEW b \in Skipped PROVE b \in Nat /\ at(b) \in LoopStart .. hi - 1
    BY <1>2, <1>3, <2>1, <2>8 DEF hi
  <2>. HIDE DEF passed
  <2>. QED
    BY <2>4, <2>5, <2>7, <2>9, <2>10 DEF passed
<1>. QED
  BY <1>2, <1>3, <1>5, <1>6, <1>7

\* A beat that is skipped is not behind the quantum.
LEMMA SkippedBeats ==
  ASSUME PlaybackType, NEW n \in Frames
  PROVE  \A b \in Skipped : b \in Nat /\ b <= position + n
<1>1. LoopStart \in Nat /\ LoopEnd \in Nat /\ position \in Nat /\ n \in Nat
  BY SampleNat DEF LoopStart, LoopEnd, tempo, PlaybackType, ProjectType, LoopType
<1>. QED
  BY <1>1 DEF Skipped, Entry, LoopActive

\* Of two windows all beats click, but for one that has just done so.
LEMMA ClicksOfWindows ==
  ASSUME NEW F \in SUBSET Nat, NEW S, NEW last,
         F = {} \/ Max(F) \in F
  PROVE  LET clicked == Clicks(F, last) \union Clicks(S, LastOf(F, last))
         IN  clicked \subseteq F \union S /\ F \union S \subseteq clicked \union {last}
<1>. DEFINE clicked == Clicks(F, last) \union Clicks(S, LastOf(F, last))
<1>1. \A W, l : Clicks(W, l) \subseteq W /\ W \subseteq Clicks(W, l) \union {l}
  BY Zenon DEF Clicks
<1>2. LastOf(F, last) \in F \union {last}
  BY DEF LastOf
<1>. QED
  BY <1>1, <1>2

-----------------------------------------------------------------------------
(* What sounds *)

\* A later tick has no earlier sample.
LEMMA SampleKeepsOrder ==
  ASSUME NEW t \in Tempos, NEW a \in Nat, NEW b \in Nat, a <= b
  PROVE  Sample(t, a) <= Sample(t, b)
<1>. DEFINE P == TicksPerBeat * t[2]
            x == 2 * (a * t[1]) + P
            y == 2 * (b * t[1]) + P
            m == 2 * P
<1>1. t[1] \in Nat \ {0} /\ t[2] \in Nat \ {0}
  OBVIOUS
<1>2. P \in Nat \ {0} /\ a * t[1] \in Nat /\ b * t[1] \in Nat
  BY <1>1
<1>3. a * t[1] <= b * t[1]
  BY <1>1, TimesKeepsOrder
<1>4. Sample(t, a) = x \div m /\ Sample(t, b) = y \div m
  BY DEF Sample, Rounded
<1>5. x \in Nat /\ y \in Nat /\ m \in Nat \ {0} /\ x <= y
  BY <1>2, <1>3
<1>. HIDE DEF x, y, m
<1>6. /\ x \div m \in Nat /\ m * (x \div m) <= x
      /\ y \div m \in Nat /\ y < m * (y \div m) + m
  BY <1>5, DivBounds
<1>. DEFINE qx == x \div m
            qy == y \div m
<1>. HIDE DEF qx, qy
<1>7. qx \in Nat /\ qy \in Nat /\ m * qx < m * qy + m
  BY <1>5, <1>6 DEF qx, qy
<1>8. ASSUME qy + 1 <= qx PROVE FALSE
  <2>1. (qy + 1) * m <= qx * m
    BY <1>5, <1>7, <1>8, TimesKeepsOrder
  <2>2. (qy + 1) * m = m * qy + m /\ qx * m = m * qx
    BY <1>5, <1>7
  <2>3. m * qx \in Nat /\ m * qy \in Nat
    BY <1>5, <1>7
  <2>. QED
    BY <1>5, <1>7, <2>1, <2>2, <2>3
<1>9. qx <= qy
  BY <1>7, <1>8
<1>. QED
  BY <1>4, <1>9 DEF qx, qy

\* No two instances are compiled to the same id.
LEMMA NoteIdsApart ==
  ASSUME NEW p \in ProjectType, ClipsApart(p), NotesApart(p.notes),
         NEW i \in Instances(p), NEW j \in Instances(p), NoteId(p, i) = NoteId(p, j)
  PROVE  i = j
<1>1. ASSUME NEW h \in Instances(p)
      PROVE  \E k \in DOMAIN p.clips : h[1] = p.clips[k] /\ h[1].id # 0
  <2>1. PICK k \in DOMAIN p.clips : h[1] = p.clips[k]
    BY InstanceParts DEF Range
  <2>2. p.clips[k].id \in 1 .. p.next_clip_id - 1 /\ p.next_clip_id \in Nat
    BY DEF ClipsApart, ProjectType
  <2>. QED
    BY <2>1, <2>2
<1>2. i[1].id = j[1].id /\ i[2] = j[2] /\ i[3][1] = j[3][1]
  <2>1. i[1].id # 0 /\ j[1].id # 0
    BY <1>1
  <2>. QED
    BY <2>1 DEF NoteId, Canonical
<1>3. i[1] = j[1]
  BY <1>1, <1>2 DEF ClipsApart
<1>4. i[3] = j[3]
  BY <1>2, InstanceParts DEF NotesApart
<1>. QED
  BY <1>2, <1>3, <1>4, InstanceParts

\* Where the playhead is, with the loop's remainder resolved: a quantum that
\* fits passes the loop's end once at most.
LEMMA VisitInLoop ==
  ASSUME PlaybackType, LoopActive, NEW k \in Nat,
         Entry + k < LoopEnd + (LoopEnd - LoopStart)
  PROVE  /\ LoopStart \in Nat /\ LoopEnd \in Nat /\ LoopStart < LoopEnd /\ Entry \in Nat
         /\ Visit(k) = IF Entry + k < LoopEnd THEN Entry + k
                       ELSE (Entry + k) - (LoopEnd - LoopStart)
<1>1. LoopStart \in Nat /\ LoopEnd \in Nat
  BY SampleNat DEF LoopStart, LoopEnd, tempo, PlaybackType, ProjectType, LoopType
<1>2. LoopStart < LoopEnd
  BY <1>1 DEF LoopActive
<1>3. Entry \in Nat
  BY <1>1 DEF Entry, PlaybackType
<1>4. CASE Entry + k < LoopEnd
  BY <1>1, <1>2, <1>3, <1>4 DEF Visit
<1>5. CASE Entry + k >= LoopEnd
  <2>. DEFINE w == LoopEnd - LoopStart
              x == (Entry + k) - LoopEnd
  <2>1. w \in Nat \ {0} /\ x \in 0 .. w - 1
    BY <1>1, <1>2, <1>3, <1>5
  <2>2. x % w = x
    BY <2>1, ModBelow
  <2>3. Visit(k) = LoopStart + (x % w)
    <3>1. (Entry + k - LoopEnd) = x
      BY <1>1, <1>3
    <3>. QED
      BY <1>5, <3>1 DEF Visit
  <2>. QED
    BY <1>1, <1>2, <1>3, <1>5, <2>2, <2>3
<1>. QED
  BY <1>1, <1>2, <1>3, <1>4, <1>5

\* A sample ahead of the playhead, before the loop's end, stays ahead as long
\* as the playhead does not come to it.
LEMMA EndStaysAhead ==
  ASSUME PlaybackType, NEW n \in Frames, Fits(n), NEW k \in 0 .. n - 1, NEW off \in Nat,
         Visit(k) <= off, LoopActive => off < LoopEnd,
         \A j \in k .. n - 1 : Visit(j) # off
  PROVE  Visit(n) <= off /\ (LoopActive => Visit(n) < LoopEnd)
<1>1. n \in Nat /\ n >= 1 /\ position \in Nat /\ k \in Nat
  BY DEF PlaybackType
<1>2. CASE ~LoopActive
  <2>1. \A j \in 0 .. n : Visit(j) = position + j
    BY <1>1, <1>2 DEF Visit, Entry
  <2>2. ASSUME off < position + n PROVE FALSE
    <3>1. off - position \in k .. n - 1
      BY <1>1, <2>1, <2>2
    <3>. QED
      BY <1>1, <2>1, <3>1
  <2>. QED
    BY <1>1, <1>2, <2>1, <2>2
<1>3. CASE LoopActive
  <2>. DEFINE S == LoopStart
              E == LoopEnd
              P == Entry
              V(j) == IF P + j < E THEN P + j ELSE (P + j) - (E - S)
  <2>0. S \in Nat /\ E \in Nat /\ S < E /\ P \in Nat
    <3>1. S \in Nat /\ E \in Nat
      BY SampleNat DEF LoopStart, LoopEnd, tempo, PlaybackType, ProjectType, LoopType
    <3>. QED
      BY <1>1, <1>3, <3>1 DEF LoopActive, Entry
  <2>1. P + n <= E + (E - S)
    BY <1>1, <1>3, <2>0 DEF Fits, Entry
  <2>2. ASSUME NEW j \in Nat, P + j < E + (E - S) PROVE Visit(j) = V(j)
    BY <1>3, <2>2, VisitInLoop
  <2>. HIDE DEF S, E, P
  <2>3. \A j \in 0 .. n - 1 : Visit(j) = V(j)
    BY <1>1, <2>0, <2>1, <2>2
  <2>4. off < E
    BY <1>3 DEF E
  <2>5. CASE P + k < E
    <3>1. ASSUME off < P + n PROVE FALSE
      <4>1. off - P \in k .. n - 1 /\ P + (off - P) = off
        BY <1>1, <2>0, <2>3, <2>5, <3>1
      <4>. QED
        BY <1>1, <2>0, <2>3, <2>4, <4>1
    <3>2. P + n < E
      BY <1>1, <2>0, <2>4, <3>1
    <3>3. Visit(n) = P + n
      BY <1>1, <2>0, <2>2, <3>2
    <3>. QED
      BY <1>1, <2>0, <3>1, <3>2, <3>3 DEF E
  <2>6. CASE P + k >= E
    <3>1. off >= (P + k) - (E - S)
      BY <1>1, <2>0, <2>3, <2>6
    <3>2. ASSUME off < (P + n) - (E - S) PROVE FALSE
      <4>. DEFINE j == (off + (E - S)) - P
      <4>1. j \in k .. n - 1 /\ P + j = off + (E - S)
        BY <1>1, <2>0, <3>1, <3>2
      <4>2. V(j) = off
        BY <1>1, <2>0, <2>6, <4>1
      <4>. QED
        BY <1>1, <2>3, <4>1, <4>2
    <3>3. P + n < E + (E - S)
      BY <1>1, <2>0, <2>4, <3>2
    <3>4. Visit(n) = (P + n) - (E - S)
      BY <1>1, <2>0, <2>2, <2>6, <3>3
    <3>. QED
      BY <1>1, <2>0, <3>2, <3>3, <3>4 DEF E
  <2>. QED
    BY <1>1, <2>0, <2>5, <2>6
<1>. QED
  BY <1>2, <1>3

\* A finite set of samples has a last one.
LEMMA LastSample ==
  ASSUME NEW n \in Nat, NEW T \in SUBSET (0 .. n - 1), T # {}
  PROVE  \E k \in T : \A j \in T : j <= k
<1>. DEFINE U == {n - j : j \in T}
<1>1. U \in SUBSET Nat /\ U # {}
  OBVIOUS
<1>2. PICK x \in U : \A y \in U : x <= y
  <2>. HIDE DEF U
  <2>. QED
    BY <1>1, LeastNat
<1>3. PICK k \in T : x = n - k
  BY <1>2
<1>4. ASSUME NEW j \in T PROVE j <= k
  <2>1. n - j \in U
    OBVIOUS
  <2>2. n - k <= n - j
    BY <1>2, <1>3, <2>1
  <2>3. j \in 0 .. n - 1 /\ k \in 0 .. n - 1
    OBVIOUS
  <2>. HIDE DEF U
  <2>. QED
    BY <2>2, <2>3
<1>. QED
  BY <1>4

-----------------------------------------------------------------------------
(* The voices *)

\* What stays of a list without its k-th entry.
LEMMA RemoveAtEntries ==
  ASSUME NEW S, NEW s \in Seq(S), NEW k \in DOMAIN s
  PROVE  /\ RemoveAt(s, k) \in Seq(S) /\ DOMAIN RemoveAt(s, k) = 1 .. Len(s) - 1
         /\ \A j \in 1 .. Len(s) - 1 : RemoveAt(s, k)[j] = s[IF j < k THEN j ELSE j + 1]
<1>. DEFINE a == SubSeq(s, 1, k - 1)
            b == SubSeq(s, k + 1, Len(s))
<1>1. Len(s) \in Nat /\ k \in 1 .. Len(s) /\ DOMAIN s = 1 .. Len(s)
  OBVIOUS
<1>2. a \in Seq(S) /\ Len(a) = k - 1 /\ \A j \in 1 .. k - 1 : a[j] = s[j]
  BY <1>1, SubSeqProperties
<1>3. b \in Seq(S) /\ Len(b) = Len(s) - k /\ \A j \in 1 .. Len(s) - k : b[j] = s[k + j]
  <2>1. b \in Seq(S)
    BY <1>1, SubSeqProperties
  <2>2. Len(b) = Len(s) - k
    BY <1>1, SubSeqProperties
  <2>3. \A j \in 1 .. Len(s) - k : b[j] = s[k + j]
    BY <1>1
  <2>. QED
    BY <2>1, <2>2, <2>3
<1>4. RemoveAt(s, k) = a \o b
  BY DEF RemoveAt
<1>. HIDE DEF a, b
<1>5. /\ a \o b \in Seq(S) /\ Len(a \o b) = Len(s) - 1
      /\ \A j \in 1 .. Len(s) - 1 : (a \o b)[j] = IF j < k THEN a[j] ELSE b[j - (k - 1)]
  <2>1. /\ a \o b \in Seq(S) /\ Len(a \o b) = Len(a) + Len(b)
        /\ \A j \in 1 .. Len(a) + Len(b) :
             (a \o b)[j] = IF j <= Len(a) THEN a[j] ELSE b[j - Len(a)]
    <3>1. a \in Seq(S) /\ b \in Seq(S)
      BY <1>2, <1>3
    <3>. QED
      BY <3>1, ConcatProperties, Zenon
  <2>2. Len(a) + Len(b) = Len(s) - 1
    BY <1>1, <1>2, <1>3
  <2>3. \A j \in 1 .. Len(s) - 1 : j <= k - 1 <=> j < k
    BY <1>1
  <2>. QED
    BY <1>2, <2>1, <2>2, <2>3
<1>6. ASSUME NEW j \in 1 .. Len(s) - 1
      PROVE  (a \o b)[j] = s[IF j < k THEN j ELSE j + 1]
  <2>1. CASE j < k
    <3>1. j \in 1 .. k - 1
      BY <1>1, <2>1
    <3>. QED
      BY <1>2, <1>5, <2>1, <3>1
  <2>2. CASE j >= k
    <3>. DEFINE m == j - (k - 1)
    <3>1. m \in 1 .. Len(s) - k /\ k + m = j + 1
      BY <1>1, <2>2
    <3>. HIDE DEF m
    <3>2. b[m] = s[j + 1]
      BY <1>3, <3>1
    <3>3. ~(j < k)
      BY <1>1, <2>2
    <3>. QED
      <4>1. (a \o b)[j] = b[m]
        BY <1>5, <3>3 DEF m
      <4>. QED
        BY <3>2, <3>3, <4>1
  <2>3. j < k \/ j >= k
    BY <1>1
  <2>. QED
    BY <2>1, <2>2, <2>3, Zenon
<1>7. DOMAIN (a \o b) = 1 .. Len(s) - 1
  BY <1>5
<1>. QED
  BY <1>4, <1>5, <1>6, <1>7

\* What is true of 0 and of each next number up to n is true of n.
LEMMA CountUp ==
  ASSUME NEW n \in Nat, NEW Good \in SUBSET Nat, 0 \in Good,
         \A k \in 0 .. n - 1 : k \in Good => k + 1 \in Good
  PROVE  n \in Good
<1>. DEFINE Bad == (0 .. n) \ Good
<1>1. SUFFICES ASSUME n \notin Good PROVE FALSE
  OBVIOUS
<1>2. Bad \in SUBSET Nat /\ Bad # {}
  BY <1>1
<1>3. PICK m \in Bad : \A y \in Bad : m <= y
  BY <1>2, LeastNat
<1>4. m \in 0 .. n /\ m \notin Good /\ m # 0
  BY <1>3
<1>5. m - 1 \in 0 .. n - 1 /\ m - 1 \in Good
  BY <1>3, <1>4
<1>. QED
  BY <1>4, <1>5

\* An id is no silence.
LEMMA NoNoteIsNoId == NoNote \notin NoteIds
BY DEF NoNote, NoteIds

\* The voice a NoteOn takes is one of them, and sustains no note if there is one.
LEMMA TakenVoice ==
  ASSUME NEW vs \in VoiceStates
  PROVE  /\ Taken(vs) \in 1 .. VoiceCount
         /\ NoNote \in Range(vs) => vs[Taken(vs)] = NoNote
<1>. DEFINE free == {v \in DOMAIN vs : vs[v] = NoNote}
            T == free \union IF NoNote \in Range(vs) THEN {} ELSE {1}
<1>1. DOMAIN vs = 1 .. VoiceCount /\ VoiceCount \in Nat \ {0}
  BY CapacityAssumption DEF VoiceStates
<1>2. T \in SUBSET (1 .. VoiceCount) /\ T # {}
  BY <1>1 DEF Range
<1>3. NoNote \in Range(vs) => T = free
  OBVIOUS
<1>. HIDE DEF T
<1>4. Min(T) \in T
  <2>1. T \in SUBSET Nat
    BY <1>1, <1>2
  <2>2. \E x \in T : \A y \in T : x <= y
    BY <1>2, <2>1, LeastNat
  <2>. QED
    BY <2>2 DEF Min
<1>5. Taken(vs) = Min(T)
  BY DEF Taken, T
<1>. QED
  BY <1>2, <1>3, <1>4, <1>5

\* A NoteOff ends its note, in every voice; a NoteOn adds its note, and ends none
\* as long as there is a voice that sustains none.
LEMMA ApplyEvent ==
  ASSUME NEW vs \in VoiceStates, NEW e \in EventType
  PROVE  /\ Apply(e, vs) \in VoiceStates
         /\ e.kind = "NoteOff" => Sustaining(Apply(e, vs)) = Sustaining(vs) \ {e.id}
         /\ e.kind = "NoteOn" /\ NoNote \in Range(vs) =>
              Sustaining(Apply(e, vs)) = Sustaining(vs) \union {e.id}
<1>. DEFINE Ids == NoteIds \union {NoNote}
            after == Apply(e, vs)
            m == VoiceCount
<1>1. /\ DOMAIN vs = 1 .. m /\ m \in Nat \ {0} /\ \A v \in 1 .. m : vs[v] \in Ids
      /\ e.id \in NoteIds
  BY CapacityAssumption DEF VoiceStates, EventType
<1>2. CASE e.kind = "NoteOff"
  <2>1. after = [v \in 1 .. m |-> IF vs[v] = e.id THEN NoNote ELSE vs[v]]
    BY <1>1, <1>2 DEF Apply
  <2>2. after \in VoiceStates
    BY <1>1, <2>1 DEF VoiceStates
  <2>3. Sustaining(after) = Sustaining(vs) \ {e.id}
    BY <1>1, <2>1 DEF Sustaining, Range
  <2>. QED
    BY <1>2, <2>2, <2>3
<1>3. CASE e.kind = "NoteOn"
  <2>. DEFINE t == Taken(vs)
              left == RemoveAt(vs, t)
  <2>1. t \in 1 .. m /\ (NoNote \in Range(vs) => vs[t] = NoNote)
    BY TakenVoice
  <2>2. vs \in Seq(Ids) /\ Len(vs) = m
    BY <1>1 DEF VoiceStates
  <2>3. /\ left \in Seq(Ids) /\ DOMAIN left = 1 .. m - 1
        /\ \A v \in 1 .. m - 1 : left[v] = vs[IF v < t THEN v ELSE v + 1]
    <3>. HIDE DEF Ids, t, left, m
    <3>1. t \in DOMAIN vs
      BY <1>1, <2>1
    <3>. QED
      BY <2>2, <3>1, RemoveAtEntries DEF left
  <2>4. after = Append(left, e.id)
    BY <1>3 DEF Apply
  <2>. HIDE DEF t, left, after
  <2>5. Len(left) = m - 1
    BY <1>1, <2>3
  <2>6. DOMAIN after = 1 .. m /\ after[m] = e.id /\ \A v \in 1 .. m - 1 : after[v] = left[v]
    BY <1>1, <2>3, <2>4, <2>5
  <2>7. after \in VoiceStates
    <3>1. after \in Seq(Ids)
      BY <1>1, <2>3, <2>4
    <3>2. Len(after) = m
      BY <1>1, <2>4, <2>5, <2>3
    <3>3. \A s \in Seq(Ids) : s \in [1 .. Len(s) -> Ids]
      OBVIOUS
    <3>. QED
      BY <3>1, <3>2, <3>3 DEF VoiceStates
  <2>8. ASSUME NoNote \in Range(vs)
        PROVE  Sustaining(after) = Sustaining(vs) \union {e.id}
    <3>1. ASSUME NEW x \in Sustaining(after) PROVE x \in Sustaining(vs) \union {e.id}
      <4>1. PICK v \in 1 .. m : x = after[v] /\ x # NoNote
        BY <2>6, <3>1 DEF Sustaining, Range
      <4>2. CASE v = m
        BY <2>6, <4>1, <4>2
      <4>3. CASE v # m
        <5>1. v \in 1 .. m - 1
          BY <1>1, <4>3
        <5>2. x = vs[IF v < t THEN v ELSE v + 1] /\ (IF v < t THEN v ELSE v + 1) \in 1 .. m
          BY <1>1, <2>3, <2>6, <4>1, <5>1
        <5>. QED
          BY <1>1, <4>1, <5>2 DEF Sustaining, Range
      <4>. QED
        BY <4>2, <4>3
    <3>2. ASSUME NEW x \in Sustaining(vs) PROVE x \in Sustaining(after)
      <4>1. PICK v \in 1 .. m : x = vs[v] /\ x # NoNote
        BY <1>1, <3>2 DEF Sustaining, Range
      <4>2. v # t
        BY <2>1, <2>8, <4>1
      <4>. DEFINE u == IF v < t THEN v ELSE v - 1
      <4>3. u \in 1 .. m - 1 /\ (IF u < t THEN u ELSE u + 1) = v
        BY <1>1, <2>1, <4>2
      <4>. HIDE DEF u
      <4>4. after[u] = x /\ u \in DOMAIN after
        BY <1>1, <2>3, <2>6, <4>1, <4>3
      <4>. QED
        BY <4>1, <4>4 DEF Sustaining, Range
    <3>3. e.id \in Sustaining(after)
      BY <1>1, <2>6, NoNoteIsNoId DEF Sustaining, Range
    <3>. QED
      BY <3>1, <3>2, <3>3
  <2>. QED
    BY <1>3, <2>7, <2>8 DEF after
<1>. QED
  BY <1>2, <1>3 DEF EventType

\* The voices after each event are those before it with the event applied.
LEMMA PlayedSteps ==
  ASSUME NEW order \in Seq(EventType), voices \in VoiceStates
  PROVE  /\ Played(order)[0] = voices
         /\ \A k \in 1 .. Len(order) :
              Played(order)[k] = Apply(order[k], Played(order)[k - 1])
         /\ \A k \in 0 .. Len(order) : Played(order)[k] \in VoiceStates
<1>. DEFINE n == Len(order)
            Body(f) == [k \in 0 .. n |-> IF k = 0 THEN voices ELSE Apply(order[k], f[k - 1])]
            Leads(m, d) == d[0] = voices /\ \A k \in 1 .. m : d[k] = Apply(order[k], d[k - 1])
            Good == {m \in 0 .. n : \E d \in [0 .. m -> VoiceStates] : Leads(m, d)}
            made == CHOOSE f : f = Body(f)
<1>1. n \in Nat /\ \A k \in 1 .. n : order[k] \in EventType
  OBVIOUS
<1>2. 0 \in Good
  <2>1. [k \in 0 .. 0 |-> voices] \in [0 .. 0 -> VoiceStates] /\ Leads(0, [k \in 0 .. 0 |-> voices])
    OBVIOUS
  <2>2. 0 \in 0 .. n
    BY <1>1
  <2>. HIDE DEF Leads, n
  <2>. QED
    BY <2>1, <2>2
<1>3. ASSUME NEW m \in 0 .. n - 1, m \in Good PROVE m + 1 \in Good
  <2>1. PICK d \in [0 .. m -> VoiceStates] : Leads(m, d)
    BY <1>3
  <2>. DEFINE e == [k \in 0 .. m + 1 |-> IF k = m + 1 THEN Apply(order[m + 1], d[m]) ELSE d[k]]
  <2>2. m + 1 \in 1 .. n /\ m \in 0 .. m /\ 0 \in 0 .. m /\ m \in Nat
    BY <1>1
  <2>3. Apply(order[m + 1], d[m]) \in VoiceStates
    BY <1>1, <2>2, ApplyEvent
  <2>4. e \in [0 .. m + 1 -> VoiceStates]
    BY <2>2, <2>3
  <2>5. e[0] = voices
    BY <2>1, <2>2
  <2>6. ASSUME NEW k \in 1 .. m + 1 PROVE e[k] = Apply(order[k], e[k - 1])
    <3>1. CASE k = m + 1
      BY <2>2, <3>1
    <3>2. CASE k # m + 1
      <4>1. k \in 1 .. m /\ k \in 0 .. m + 1 /\ k - 1 \in 0 .. m + 1 /\ k - 1 # m + 1
        BY <2>2, <3>2
      <4>2. e[k] = d[k] /\ e[k - 1] = d[k - 1]
        BY <3>2, <4>1
      <4>. QED
        BY <2>1, <4>1, <4>2
    <3>. QED
      BY <3>1, <3>2
  <2>. HIDE DEF e
  <2>7. Leads(m + 1, e)
    BY <2>5, <2>6
  <2>8. m + 1 \in 0 .. n
    BY <1>1, <2>2
  <2>. HIDE DEF Leads, n
  <2>. QED
    BY <2>4, <2>7, <2>8
<1>4. PICK d \in [0 .. n -> VoiceStates] : Leads(n, d)
  <2>1. Good \in SUBSET Nat
    BY <1>1
  <2>. HIDE DEF Good, n
  <2>2. n \in Good
    BY <1>1, <1>2, <1>3, <2>1, CountUp
  <2>. QED
    BY <2>2 DEF Good
<1>5. d = Body(d)
  <2>1. ASSUME NEW k \in 0 .. n
        PROVE  d[k] = IF k = 0 THEN voices ELSE Apply(order[k], d[k - 1])
    <3>1. CASE k = 0
      BY <1>4, <3>1
    <3>2. CASE k # 0
      <4>1. k \in 1 .. n
        BY <1>1, <3>2
      <4>. QED
        BY <1>4, <3>2, <4>1
    <3>. QED
      BY <3>1, <3>2
  <2>. QED
    BY <1>4, <2>1
<1>6. made = Body(made)
  <2>. HIDE DEF Body
  <2>. QED
    BY <1>5
<1>7. Played(order) = made
  BY DEF Played
<1>. HIDE DEF made
<1>8. made[0] = voices /\ \A k \in 1 .. n : made[k] = Apply(order[k], made[k - 1])
  <2>1. 0 \in 0 .. n /\ \A k \in 1 .. n : k \in 0 .. n /\ k # 0
    BY <1>1
  <2>2. \A k \in 0 .. n : made[k] = Body(made)[k]
    <3>. HIDE DEF Body
    <3>. QED
      BY <1>6
  <2>. QED
    BY <2>1, <2>2
<1>. DEFINE Typed == {k \in Nat : k <= n => made[k] \in VoiceStates}
<1>9. ASSUME NEW k \in 0 .. n PROVE made[k] \in VoiceStates
  <2>1. Typed \in SUBSET Nat /\ 0 \in Typed
    BY <1>8
  <2>2. ASSUME NEW j \in 0 .. k - 1, j \in Typed PROVE j + 1 \in Typed
    <3>1. j + 1 \in 1 .. n /\ made[j] \in VoiceStates
      BY <1>1, <2>2
    <3>2. made[j + 1] = Apply(order[j + 1], made[j])
      BY <1>8, <3>1
    <3>3. made[j + 1] \in VoiceStates
      BY <1>1, <3>1, <3>2, ApplyEvent
    <3>. QED
      BY <3>3
  <2>3. k \in Nat
    BY <1>1
  <2>4. k \in Typed
    <3>. HIDE DEF Typed
    <3>. QED
      BY <2>1, <2>2, <2>3, CountUp
  <2>. QED
    BY <1>1, <2>4
<1>. QED
  BY <1>7, <1>8, <1>9

\* What sustains after the events of a block, with a voice for each note: the
\* last event of an id decides.
Sustained(block, ids) ==
  {id \in ids \union {e.id : e \in block} :
     LET mine == {e \in block : e.id = id} IN
     IF mine = {} THEN id \in ids
     ELSE \E e \in mine : e.kind = "NoteOn" /\ \A f \in mine : ~Before(e, f)}

\* One more event, which does not come before those of the block.
LEMMA SustainedAfter ==
  ASSUME NEW block \in SUBSET EventType, NEW ids, NEW e \in EventType,
         \A f \in block : ~Before(e, f)
  PROVE  Sustained(block \union {e}, ids) =
           IF e.kind = "NoteOn" THEN Sustained(block, ids) \union {e.id}
           ELSE Sustained(block, ids) \ {e.id}
<1>. DEFINE mine(B, x) == {f \in B : f.id = x}
            Stays(B, x) == IF mine(B, x) = {} THEN x \in ids
                           ELSE \E f \in mine(B, x) : /\ f.kind = "NoteOn"
                                                      /\ \A g \in mine(B, x) : ~Before(f, g)
            all == block \union {e}
<1>1. \A B, x : x \in Sustained(B, ids) <=> x \in ids \union {f.id : f \in B} /\ Stays(B, x)
  BY DEF Sustained
<1>2. \A x : x # e.id => mine(all, x) = mine(block, x)
  OBVIOUS
<1>3. mine(all, e.id) = mine(block, e.id) \union {e} /\ mine(all, e.id) # {}
  OBVIOUS
<1>4. ASSUME NEW x, x # e.id
      PROVE  x \in Sustained(all, ids) <=> x \in Sustained(block, ids)
  <2>1. x \in {f.id : f \in all} <=> x \in {f.id : f \in block}
    BY <1>4
  <2>2. mine(all, x) = mine(block, x)
    BY <1>2, <1>4
  <2>3. Stays(all, x) <=> Stays(block, x)
    <3>. HIDE DEF mine
    <3>. QED
      BY <2>2
  <2>. HIDE DEF Stays, all
  <2>. QED
    BY <1>1, <2>1, <2>3
<1>5. CASE e.kind = "NoteOn"
  <2>1. \A g \in mine(all, e.id) : ~Before(e, g)
    BY <1>5 DEF Before, EventType
  <2>2. Stays(all, e.id)
    BY <1>3, <1>5, <2>1
  <2>3. e.id \in Sustained(all, ids)
    BY <1>1, <2>2
  <2>. QED
    BY <1>4, <1>5, <2>3
<1>6. CASE e.kind = "NoteOff"
  <2>1. ASSUME NEW f \in mine(all, e.id), f.kind = "NoteOn" PROVE Before(f, e)
    <3>1. f \in block /\ ~Before(e, f) /\ f.at \in Nat /\ e.at \in Nat
      BY <1>6, <2>1 DEF EventType
    <3>. QED
      BY <1>6, <2>1, <3>1 DEF Before
  <2>2. ~Stays(all, e.id)
    BY <1>3, <2>1
  <2>3. e.id \notin Sustained(all, ids)
    BY <1>1, <2>2
  <2>. QED
    BY <1>4, <1>6, <2>3
<1>. QED
  BY <1>5, <1>6 DEF EventType

\* As long as no NoteOn steals a voice, the events of a block leave sustaining
\* what the last event of each id says.
LEMMA PlayedIsSustained ==
  ASSUME NEW block \in SUBSET EventType, NEW order \in Orders(block),
         voices \in VoiceStates, ~Steals(order)
  PROVE  Sustaining(Played(order)[Len(order)]) = Sustained(block, Sustaining(voices))
<1>. DEFINE n == Len(order)
            first(k) == {order[j] : j \in 1 .. k}
            after == Played(order)
            Right(k) == Sustaining(after[k]) = Sustained(first(k), Sustaining(voices))
            Good == {k \in Nat : k <= n => Right(k)}
<1>1. /\ order \in Seq(EventType) /\ n \in Nat /\ DOMAIN order = 1 .. n
      /\ \A k \in 1 .. n : order[k] \in EventType
  <2>1. PICK m \in 0 .. Capacity : order \in [1 .. m -> block]
    BY DEF Orders, SeqOf
  <2>2. m \in Nat
    BY <2>1, CapacityAssumption
  <2>3. order \in [1 .. m -> EventType]
    BY <2>1
  <2>. QED
    BY <2>2, <2>3
<1>2. /\ after[0] = voices
      /\ \A k \in 1 .. n : after[k] = Apply(order[k], after[k - 1])
      /\ \A k \in 0 .. n : after[k] \in VoiceStates
  BY <1>1, PlayedSteps
<1>3. \A j, k \in 1 .. n : j < k => ~Before(order[k], order[j])
  BY <1>1 DEF Orders
<1>4. \A k \in 1 .. n : order[k].kind = "NoteOn" => NoNote \in Range(after[k - 1])
  BY <1>1 DEF Steals
<1>5. first(n) = block
  BY <1>1 DEF Orders, Range
<1>. HIDE DEF n, after
<1>6. 0 \in Good
  <2>1. first(0) = {}
    OBVIOUS
  <2>2. Sustained({}, Sustaining(voices)) = Sustaining(voices)
    BY DEF Sustained
  <2>. QED
    BY <1>2, <2>1, <2>2
<1>7. ASSUME NEW k \in 0 .. n - 1, k \in Good PROVE k + 1 \in Good
  <2>. DEFINE e == order[k + 1]
  <2>1. k \in Nat /\ k + 1 \in 1 .. n /\ k \in 0 .. n /\ e \in EventType
    BY <1>1
  <2>2. Right(k)
    BY <1>1, <1>7
  <2>3. first(k) \in SUBSET EventType /\ first(k + 1) = first(k) \union {e}
    BY <1>1, <2>1
  <2>4. \A f \in first(k) : ~Before(e, f)
    <3>1. \A j \in 1 .. k : j \in 1 .. n /\ j < k + 1
      BY <1>1, <2>1
    <3>. QED
      BY <1>3, <2>1, <3>1
  <2>5. after[k + 1] = Apply(e, after[k]) /\ after[k] \in VoiceStates
    BY <1>2, <2>1
  <2>6. e.kind = "NoteOn" => NoNote \in Range(after[k])
    BY <1>4, <2>1
  <2>. HIDE DEF e, first
  <2>7. Sustaining(after[k + 1]) = IF e.kind = "NoteOn" THEN Sustaining(after[k]) \union {e.id}
                                   ELSE Sustaining(after[k]) \ {e.id}
    <3>1. e.kind \in {"NoteOn", "NoteOff"}
      BY <2>1 DEF EventType
    <3>. QED
      BY <2>1, <2>5, <2>6, <3>1, ApplyEvent
  <2>8. Sustained(first(k + 1), Sustaining(voices))
          = IF e.kind = "NoteOn" THEN Sustained(first(k), Sustaining(voices)) \union {e.id}
            ELSE Sustained(first(k), Sustaining(voices)) \ {e.id}
    <3>. DEFINE B == first(k)
                ids == Sustaining(voices)
    <3>1. B \in SUBSET EventType /\ \A f \in B : ~Before(e, f)
      BY <2>3, <2>4
    <3>. HIDE DEF B, ids
    <3>2. e \in EventType /\ B \in SUBSET EventType /\ \A f \in B : ~Before(e, f)
      BY <2>1, <3>1
    <3>3. Sustained(B \union {e}, ids) = IF e.kind = "NoteOn" THEN Sustained(B, ids) \union {e.id}
                                         ELSE Sustained(B, ids) \ {e.id}
      BY ONLY <3>2, SustainedAfter, Zenon
    <3>. QED
      BY <2>3, <3>3 DEF B, ids
  <2>9. Right(k + 1)
    BY <2>2, <2>7, <2>8
  <2>. QED
    BY <2>1, <2>9
<1>8. n \in Good
  <2>1. Good \in SUBSET Nat
    OBVIOUS
  <2>. HIDE DEF Good
  <2>. QED
    BY <1>1, <1>6, <1>7, <2>1, CountUp
<1>. HIDE DEF first
<1>9. Right(n)
  BY <1>1, <1>8
<1>. QED
  BY <1>5, <1>9 DEF n, after
\* The events of a block are typed, also when the quantum does not fit.
LEMMA BlockTyped ==
  ASSUME PlaybackType, TrackInv, NEW n \in Frames
  PROVE  Block(n) \subseteq EventType
<1>1. \A e \in track : e \in EventType
  BY EventsTyped, TrackIsCompiled DEF PlaybackType
<1>2. LoopStart \in Nat /\ LoopEnd \in Nat /\ position \in Nat /\ Word \in Nat \ {0}
  BY SampleNat DEF LoopStart, LoopEnd, tempo, PlaybackType, ProjectType, LoopType
<1>3. \A k \in Nat, e \in EventType : EventAt(k, e) \in EventType
  BY DEF EventAt, EventType
<1>4. \A e \in EventType : e.at \in Nat
  BY DEF EventType
<1>5. \A hi : Segment(position, hi) \subseteq EventType
  <2>1. \A e \in track : e.at >= position => e.at - position \in Nat
    BY <1>1, <1>2, <1>4
  <2>2. \A e \in track : e.at >= position => EventAt(e.at - position, e) \in EventType
    BY <1>1, <1>3, <2>1
  <2>. QED
    BY <2>2 DEF Segment
<1>6. WrappedSegment(n) \subseteq EventType
  <2>1. \A a \in Nat : (Boundary + a - LoopStart) % Word \in Nat
    BY <1>2 DEF Boundary
  <2>. QED
    BY <1>1, <1>3, <1>4, <2>1 DEF WrappedSegment
<1>. QED
  BY <1>5, <1>6 DEF Block

\* An event of the note or voice id, at offset k of a block.
NoteEvent(k, kind, id) == [at |-> k, kind |-> kind, id |-> id]

\* The events of one id in a block are NoteOns at ons and NoteOffs at offs.
EventsOf(block, id, ons, offs) ==
  /\ \A k \in ons : NoteEvent(k, "NoteOn", id) \in block
  /\ \A k \in offs : NoteEvent(k, "NoteOff", id) \in block
  /\ \A e \in block : e.id = id =>
        \/ \E k \in ons : e = NoteEvent(k, "NoteOn", id)
        \/ \E k \in offs : e = NoteEvent(k, "NoteOff", id)

\* The events of one id in a quantum leave it held when the last of them is a
\* NoteOn, or when there are none and it was held.
LEMMA SustainedById ==
  ASSUME NEW n \in Nat, NEW block, NEW ids, NEW x,
         NEW A \in SUBSET (0 .. n - 1), NEW B \in SUBSET (0 .. n - 1),
         EventsOf(block, x, A, B)
  PROVE  x \in Sustained(block, ids) <=>
           \/ A = {} /\ B = {} /\ x \in ids
           \/ \E k \in A : \A j \in B : j <= k
<1>. DEFINE mine == {e \in block : e.id = x}
            On(k) == NoteEvent(k, "NoteOn", x)
            Off(k) == NoteEvent(k, "NoteOff", x)
            Stays == IF mine = {} THEN x \in ids
                     ELSE \E e \in mine : e.kind = "NoteOn" /\ \A f \in mine : ~Before(e, f)
<1>1. mine = {On(k) : k \in A} \union {Off(k) : k \in B}
  BY DEF EventsOf, NoteEvent
<1>8. \A k : /\ On(k).kind = "NoteOn" /\ On(k).at = k
            /\ Off(k).kind = "NoteOff" /\ Off(k).at = k
  BY DEF NoteEvent
<1>2. x \in Sustained(block, ids) <=> x \in ids \union {e.id : e \in block} /\ Stays
  BY DEF Sustained
<1>3. mine # {} => x \in {e.id : e \in block}
  OBVIOUS
<1>. HIDE DEF mine
<1>7. \A k \in A \union B : k \in Nat
  OBVIOUS
<1>4. CASE A = {} /\ B = {}
  <2>1. mine = {}
    BY <1>1, <1>4
  <2>. QED
    BY <1>2, <1>4, <2>1
<1>5. CASE A = {} /\ B # {}
  <2>1. mine # {} /\ \A e \in mine : e.kind = "NoteOff"
    <3>1. PICK k \in B : TRUE
      BY <1>5
    <3>2. Off(k) \in mine
      BY <1>1
    <3>3. \A e \in mine : \E j \in B : e = Off(j)
      BY <1>1, <1>5
    <3>. QED
      BY <1>8, <3>2, <3>3
  <2>2. ~Stays
    BY <2>1
  <2>. QED
    BY <1>2, <1>5, <2>2
<1>6. CASE A # {}
  <2>1. mine # {}
    BY <1>1, <1>6
  <2>2. ASSUME NEW e \in mine, e.kind = "NoteOn", \A f \in mine : ~Before(e, f)
        PROVE  \E k \in A : \A j \in B : j <= k
    <3>1. PICK k \in A : e = On(k)
      BY <1>1, <1>8, <2>2
    <3>2. ASSUME NEW j \in B PROVE j <= k
      <4>1. Off(j) \in mine /\ ~Before(e, Off(j))
        BY <1>1, <2>2
      <4>2. ~(k < j)
        BY <1>8, <3>1, <4>1 DEF Before
      <4>. QED
        BY <4>2
    <3>. QED
      BY <3>1, <3>2
  <2>3. ASSUME NEW k \in A, \A j \in B : j <= k
        PROVE  \E e \in mine : e.kind = "NoteOn" /\ \A f \in mine : ~Before(e, f)
    <3>1. PICK m \in A : \A j \in A : j <= m
      BY <1>6, LastSample
    <3>2. On(m) \in mine /\ On(m).kind = "NoteOn" /\ On(m).at = m
      BY <1>1, <1>8
    <3>3. ASSUME NEW f \in mine PROVE ~Before(On(m), f)
      <4>1. PICK j \in A \union B : f.at = j
        BY <1>1, <1>8
      <4>2. j \in Nat /\ m \in Nat /\ k \in Nat
        BY <1>7
      <4>3. j <= m
        BY <2>3, <3>1, <4>2
      <4>4. ~(m < j)
        BY <4>2, <4>3
      <4>. QED
        BY <3>2, <4>1, <4>4 DEF Before
    <3>. QED
      BY <3>2, <3>3
  <2>. QED
    BY <1>2, <1>3, <1>6, <2>1, <2>2, <2>3
<1>. QED
  BY <1>4, <1>5, <1>6


\* A block has the events of one instance at the samples where the playhead
\* comes to its start and its end, each unless the clip cuts it.
LEMMA BlockOfInstance ==
  ASSUME PlaybackType, TrackInv, IdInv, track = Compiled(project),
         NEW n \in Frames, Fits(n), NEW i \in Instances(project)
  PROVE  LET cut == Sample(tempo, ClipEnd(i[1]))
             id == NoteId(project, i)
             at(s) == {k \in 0 .. n - 1 : s < cut /\ Visit(k) = s}
         IN  EventsOf(Block(n), id, at(OnSample(tempo, i)), at(OffSample(tempo, i)))
<1>. DEFINE cut(j) == Sample(tempo, ClipEnd(j[1]))
            id == NoteId(project, i)
            at(s) == {k \in 0 .. n - 1 : s < cut(i) /\ Visit(k) = s}
            on(j) == [at |-> OnSample(tempo, j), kind |-> "NoteOn", id |-> NoteId(project, j)]
            off(j) == [at |-> OffSample(tempo, j), kind |-> "NoteOff", id |-> NoteId(project, j)]
<1>1. Block(n) = UNION {{EventAt(k, e) : e \in {f \in track : f.at = Visit(k)}} :
                          k \in 0 .. n - 1}
  BY QuantumFollows
<1>2. \A e : e \in track <=> \E j \in Instances(project) : e \in {on(j), off(j)} /\ e.at < cut(j)
  BY DEF Compiled, tempo
<1>3. \A j \in Instances(project) : NoteId(project, j) = id => j = i
  <2>1. project \in ProjectType /\ ClipsApart(project) /\ NotesApart(project.notes)
    BY DEF PlaybackType, IdInv, NotesApart
  <2>. QED
    BY <2>1, NoteIdsApart
<1>4. \A x : x \in Block(n) <=> \E k \in 0 .. n - 1, e \in track : e.at = Visit(k) /\ x = EventAt(k, e)
  BY <1>1
<1>. HIDE DEF id
<1>5. ASSUME NEW x \in Block(n), x.id = id 
      PROVE  \/ \E k \in at(OnSample(tempo, i)) : x = NoteEvent(k, "NoteOn", id)
             \/ \E k \in at(OffSample(tempo, i)) : x = NoteEvent(k, "NoteOff", id)
  <2>1. PICK k \in 0 .. n - 1, e \in track : e.at = Visit(k) /\ x = EventAt(k, e)
    BY <1>4
  <2>2. x.id = e.id /\ x = NoteEvent(k, e.kind, e.id)
    BY <2>1 DEF EventAt, NoteEvent
  <2>3. PICK j \in Instances(project) : e \in {on(j), off(j)} /\ e.at < cut(j)
    BY <1>2
  <2>4. e.id = NoteId(project, j)
    BY <2>3
  <2>5. j = i
    BY <1>3, <1>5, <2>2, <2>4
  <2>6. CASE e = on(i)
    <3>1. e.at = OnSample(tempo, i) /\ e.kind = "NoteOn"
      BY <2>6
    <3>2. k \in at(OnSample(tempo, i))
      BY <2>1, <2>3, <2>5, <3>1
    <3>. QED
      BY <1>5, <2>2, <3>1, <3>2
  <2>7. CASE e = off(i)
    <3>1. e.at = OffSample(tempo, i) /\ e.kind = "NoteOff"
      BY <2>7
    <3>2. k \in at(OffSample(tempo, i))
      BY <2>1, <2>3, <2>5, <3>1
    <3>. QED
      BY <1>5, <2>2, <3>1, <3>2
  <2>. QED
    BY <2>3, <2>5, <2>6, <2>7
<1>6. ASSUME NEW k \in at(OnSample(tempo, i))
      PROVE  NoteEvent(k, "NoteOn", id) \in Block(n)
  <2>1. on(i) \in track /\ on(i).at = Visit(k) /\ on(i).kind = "NoteOn" /\ on(i).id = id
    BY <1>2, <1>6 DEF id
  <2>2. EventAt(k, on(i)) \in Block(n)
    BY <1>4, <1>6, <2>1
  <2>. QED
    BY <2>1, <2>2 DEF EventAt, NoteEvent
<1>7. ASSUME NEW k \in at(OffSample(tempo, i))
      PROVE  NoteEvent(k, "NoteOff", id) \in Block(n)
  <2>1. off(i) \in track /\ off(i).at = Visit(k) /\ off(i).kind = "NoteOff" /\ off(i).id = id
    BY <1>2, <1>7 DEF id
  <2>2. EventAt(k, off(i)) \in Block(n)
    BY <1>4, <1>7, <2>1
  <2>. QED
    BY <2>1, <2>2 DEF EventAt, NoteEvent
<1>. QED
  BY <1>5, <1>6, <1>7 DEF EventsOf, id

\* Every event of a block belongs to an instance.
LEMMA BlockHasInstances ==
  ASSUME PlaybackType, TrackInv, track = Compiled(project),
         NEW n \in Frames, Fits(n), NEW x \in Block(n)
  PROVE  \E i \in Instances(project) : x.id = NoteId(project, i)
<1>1. Block(n) = UNION {{EventAt(k, e) : e \in {f \in track : f.at = Visit(k)}} :
                          k \in 0 .. n - 1}
  BY QuantumFollows
<1>2. PICK k \in 0 .. n - 1, e \in track : x = EventAt(k, e)
  BY <1>1
<1>3. x.id = e.id
  BY <1>2 DEF EventAt
<1>4. \E i \in Instances(project) : e.id = NoteId(project, i)
  BY DEF Compiled
<1>. QED
  BY <1>3, <1>4

\* After a quantum that starts no note it does not end ahead, the instances
\* that sound are the ones the block leaves held.
LEMMA InstanceSounds ==
  ASSUME IInv, ~spoiled, track = Compiled(project),
         NEW n \in Frames, Fits(n), ~StartsUnending(n), NEW i \in Instances(project)
  PROVE  NoteId(project, i) \in Sustained(Block(n), Sustaining(voices)) <=> i \in SoundingAfter(n)
<1>. DEFINE cut == Sample(tempo, ClipEnd(i[1]))
            on == OnSample(tempo, i)
            off == OffSample(tempo, i)
            id == NoteId(project, i)
            ons == {k \in 0 .. n - 1 : on < cut /\ Visit(k) = on}
            offs == {k \in 0 .. n - 1 : off < cut /\ Visit(k) = off}
            starts == IF NoteStart(i) < ClipEnd(i[1])
                      THEN {k \in 0 .. n - 1 : Visit(k) = on} ELSE {}
            ends == {k \in 0 .. n - 1 : Visit(k) = off}
<1>1. PlaybackType /\ TrackInv /\ IdInv /\ n \in Nat
  BY DEF IInv
<1>2. id \in Sustained(Block(n), Sustaining(voices)) <=>
        \/ ons = {} /\ offs = {} /\ id \in Sustaining(voices)
        \/ \E k \in ons : \A j \in offs : j <= k
  <2>1. EventsOf(Block(n), id, ons, offs)
    BY <1>1, BlockOfInstance
  <2>2. ons \in SUBSET (0 .. n - 1) /\ offs \in SUBSET (0 .. n - 1)
    OBVIOUS
  <2>3. n \in Nat
    BY <1>1
  <2>. HIDE DEF ons, offs, id
  <2>4. ASSUME NEW block, NEW ids, NEW x, NEW A \in SUBSET (0 .. n - 1), NEW B \in SUBSET (0 .. n - 1),
               EventsOf(block, x, A, B)
        PROVE  x \in Sustained(block, ids) <=>
                \/ A = {} /\ B = {} /\ x \in ids
                \/ \E k \in A : \A j \in B : j <= k
    BY <2>3, <2>4, SustainedById
  <2>. QED
    BY <2>1, <2>2, <2>4
<1>3. i \in SoundingAfter(n) <=>
        (\E k \in starts : \A j \in ends : j <= k) \/ (i \in sounding /\ ends = {})
  BY DEF SoundingAfter
<1>4. id \in Sustaining(voices) <=> i \in sounding
  <2>1. Sustaining(voices) = {NoteId(project, j) : j \in sounding} /\ sounding \subseteq Instances(project)
    BY DEF IInv, SoundInv
  <2>2. project \in ProjectType /\ ClipsApart(project) /\ NotesApart(project.notes)
    BY <1>1 DEF PlaybackType, IdInv, NotesApart
  <2>3. \A j \in sounding : NoteId(project, j) = id => j = i
    BY <2>1, <2>2, NoteIdsApart
  <2>. QED
    BY <2>1, <2>3
<1>5. starts # {} => on < cut /\ off < cut
  <2>1. ASSUME NEW k \in 0 .. n - 1, Visit(k) = on, NoteStart(i) < ClipEnd(i[1])
        PROVE  on < cut /\ off < cut
    <3>1. EndsAhead(tempo, loop, Visit(k), i)
      BY <2>1 DEF StartsUnending
    <3>2. on \in Nat /\ off \in Nat /\ cut \in Nat
      BY <1>1, InstanceParts, SampleNat
         DEF OnSample, OffSample, tempo, PlaybackType, ProjectType
    <3>. QED
      BY <3>1, <3>2 DEF EndsAhead
  <2>. QED
    BY <2>1
<1>6. ons = starts
  <2>1. CASE starts # {}
    <3>1. NoteStart(i) < ClipEnd(i[1])
      BY <2>1
    <3>. QED
      BY <1>5, <2>1, <3>1
  <2>2. CASE starts = {} /\ NoteStart(i) < ClipEnd(i[1])
    BY <2>2
  <2>3. CASE ~(NoteStart(i) < ClipEnd(i[1]))
    <3>1. tempo \in Tempos /\ NoteStart(i) \in Nat /\ ClipEnd(i[1]) \in Nat
      BY <1>1, InstanceParts DEF tempo, PlaybackType, ProjectType
    <3>2. cut <= on
      BY <2>3, <3>1, SampleKeepsOrder DEF OnSample
    <3>3. cut \in Nat /\ on \in Nat
      BY <3>1, SampleNat DEF OnSample
    <3>. QED
      BY <2>3, <3>2, <3>3
  <2>. QED
    BY <2>1, <2>2, <2>3
<1>7. i \in sounding => off < cut
  BY DEF IInv, SoundInv, EndsAhead, tempo
<1>8. (ons # {} \/ i \in sounding) => offs = ends
  BY <1>5, <1>6, <1>7
<1>. HIDE DEF ons, offs, starts, ends, id
<1>9. id \in Sustained(Block(n), Sustaining(voices)) <=> i \in SoundingAfter(n)
  <2>1. CASE ons = {} /\ i \notin sounding
    BY <1>2, <1>3, <1>4, <1>6, <2>1
  <2>2. CASE ons = {} /\ i \in sounding
    BY <1>2, <1>3, <1>4, <1>6, <1>8, <2>2
  <2>3. CASE ons # {}
    BY <1>2, <1>3, <1>6, <1>8, <2>3
  <2>. QED
    BY <2>1, <2>2, <2>3
<1>. QED
  BY <1>9 DEF id

\* What sounds after a quantum still has its end ahead of the playhead.
LEMMA EndsAheadAfter ==
  ASSUME IInv, ~spoiled, NEW n \in Frames, Fits(n), ~StartsUnending(n),
         NEW i \in SoundingAfter(n)
  PROVE  i \in Instances(project) /\ EndsAhead(tempo, loop, Visit(n), i)
<1>. DEFINE off == OffSample(tempo, i)
            ends == {k \in 0 .. n - 1 : Visit(k) = off}
<1>1. /\ PlaybackType /\ n \in Nat /\ n >= 1 /\ position \in Nat
      /\ \A j \in sounding : j \in Instances(project) /\ EndsAhead(tempo, loop, position, j)
  BY DEF IInv, PlaybackType, SoundInv
<1>2. i \in Instances(project)
  BY <1>1 DEF SoundingAfter
<1>3. off \in Nat
  BY <1>1, <1>2, InstanceParts, SampleNat DEF OffSample, tempo, PlaybackType, ProjectType
<1>4. \E k \in 0 .. n - 1 : EndsAhead(tempo, loop, Visit(k), i) /\ \A j \in k .. n - 1 : Visit(j) # off
  <2>1. CASE /\ NoteStart(i) < ClipEnd(i[1])
             /\ \E k \in 0 .. n - 1 : Visit(k) = OnSample(tempo, i) /\ \A j \in ends : j <= k
    <3>1. PICK k \in 0 .. n - 1 : Visit(k) = OnSample(tempo, i) /\ \A j \in ends : j <= k
      BY <2>1
    <3>2. EndsAhead(tempo, loop, Visit(k), i)
      BY <1>2, <2>1, <3>1 DEF StartsUnending
    <3>3. OnSample(tempo, i) < off /\ OnSample(tempo, i) \in Nat
      BY <1>1, <1>2, <3>2, InstanceParts, SampleNat
         DEF EndsAhead, OnSample, tempo, PlaybackType, ProjectType
    <3>4. ASSUME NEW j \in k .. n - 1, Visit(j) = off PROVE FALSE
      <4>1. j \in ends /\ j = k
        BY <1>1, <3>1, <3>4
      <4>. QED
        BY <1>3, <3>1, <3>3, <3>4, <4>1
    <3>. QED
      BY <3>2, <3>4
  <2>2. CASE i \in sounding /\ ends = {}
    <3>1. EndsAhead(tempo, loop, position, i)
      BY <1>1, <2>2
    <3>2. LoopActive => position < LoopEnd
      BY <3>1 DEF EndsAhead, LoopActive, LoopStart, LoopEnd
    <3>3. Visit(0) = position
      <4>1. LoopActive => LoopEnd \in Nat
        BY <1>1, SampleNat DEF LoopEnd, tempo, PlaybackType, ProjectType, LoopType
      <4>2. Entry = position
        BY <1>1, <3>2, <4>1 DEF Entry
      <4>. QED
        BY <1>1, <3>2, <4>1, <4>2 DEF Visit
    <3>4. 0 \in 0 .. n - 1
      BY <1>1
    <3>. QED
      BY <2>2, <3>1, <3>3, <3>4
  <2>3. \/ /\ NoteStart(i) < ClipEnd(i[1])
           /\ \E k \in 0 .. n - 1 : Visit(k) = OnSample(tempo, i) /\ \A j \in ends : j <= k
        \/ i \in sounding /\ ends = {}
    BY <1>2 DEF SoundingAfter
  <2>. QED
    BY <2>1, <2>2, <2>3
<1>5. PICK k \in 0 .. n - 1 : EndsAhead(tempo, loop, Visit(k), i) /\ \A j \in k .. n - 1 : Visit(j) # off
  BY <1>4
<1>6. Visit(k) <= off /\ (LoopActive => off < LoopEnd)
  BY <1>5 DEF EndsAhead, LoopActive, LoopStart, LoopEnd
<1>7. Visit(n) <= off /\ (LoopActive => Visit(n) < LoopEnd)
  BY <1>1, <1>3, <1>5, <1>6, EndStaysAhead
<1>8. EndsAhead(tempo, loop, Visit(n), i)
  BY <1>5, <1>7 DEF EndsAhead, LoopActive, LoopStart, LoopEnd
<1>. QED
  BY <1>2, <1>8

-----------------------------------------------------------------------------
(* Edits keep the ids apart *)

\* An edit that keeps the clips' ids, and draws from the pool.
LEMMA SameClipIds ==
  ASSUME IdInv, NEW p, project' = p, deleted' = deleted,
         DOMAIN p.clips = DOMAIN project.clips,
         \A k \in DOMAIN p.clips : p.clips[k].id = project.clips[k].id,
         p.next_clip_id = project.next_clip_id,
         p.notes \subseteq project.notes \union NotePool
  PROVE  IdInv'
BY DEF IdInv, ClipsApart, NotesApart

\* A clip with a new id comes last.
LEMMA AddedClipIds ==
  ASSUME PlaybackType, IdInv, NEW c \in ClipType, NEW next \in Nat,
         project' = [project EXCEPT !.clips = Append(@, c), !.next_clip_id = next],
         deleted' \subseteq deleted, c \notin deleted',
         next >= project.next_clip_id, c.id \in 1 .. next - 1,
         c \in deleted \/ c.id = project.next_clip_id
  PROVE  IdInv'
<1>. DEFINE clips == project.clips
            added == Append(clips, c)
            last == Len(clips) + 1
<1>1. clips \in Seq(ClipType) /\ project.next_clip_id \in Nat /\ deleted \subseteq ClipType
  BY DEF PlaybackType, ProjectType
<1>2. Len(clips) \in Nat /\ DOMAIN clips = 1 .. Len(clips)
  BY <1>1
<1>3. DOMAIN added = 1 .. last /\ added[last] = c /\ \A k \in DOMAIN clips : added[k] = clips[k]
  BY <1>1, <1>2
<1>4. /\ project'.clips = added /\ project'.next_clip_id = next /\ project'.notes = project.notes
  BY DEF PlaybackType, ProjectType
<1>. HIDE DEF added, last
<1>5. \A k \in DOMAIN added : k = last \/ k \in DOMAIN clips
  BY <1>2, <1>3 DEF last
<1>5a. \A x \in 1 .. project.next_clip_id - 1 : x \in 1 .. next - 1
  <2>1. project.next_clip_id \in Nat
    BY <1>1
  <2>2. \A m \in Nat : next >= m => \A x \in 1 .. m - 1 : x \in 1 .. next - 1
    OBVIOUS
  <2>. QED
    BY <2>1, <2>2
<1>6. \A k \in DOMAIN clips : clips[k].id \in 1 .. next - 1 /\ clips[k].id # c.id
  <2>1. TAKE k \in DOMAIN clips
  <2>2. clips[k].id \in 1 .. project.next_clip_id - 1
    BY DEF IdInv, ClipsApart
  <2>3. clips[k].id # c.id
    BY <1>1, <2>2 DEF IdInv
  <2>. QED
    BY <1>5a, <2>2, <2>3, Zenon
<1>7. \A d \in deleted' : d.id \in 1 .. next - 1 /\ d.id # c.id
  <2>1. TAKE d \in deleted'
  <2>2. d \in deleted /\ d.id \in 1 .. project.next_clip_id - 1
    BY DEF IdInv
  <2>3. d.id # c.id
    BY <1>1, <2>2 DEF IdInv
  <2>. QED
    BY <1>5a, <2>2, <2>3, Zenon
<1>8. ClipsApart(project')
  <2>1. \A k \in DOMAIN added : added[k].id \in 1 .. next - 1
    BY <1>3, <1>5, <1>6
  <2>2. \A j, k \in DOMAIN clips : clips[j].id = clips[k].id => j = k
    BY DEF IdInv, ClipsApart
  <2>3. \A j, k \in DOMAIN added : added[j].id = added[k].id => j = k
    BY <1>3, <1>5, <1>6, <2>2
  <2>4. ASSUME NEW p, p.clips = added, p.next_clip_id = next PROVE ClipsApart(p)
    BY <2>1, <2>3, <2>4 DEF ClipsApart
  <2>. QED
    BY <1>4, <2>4
<1>9. \A d \in deleted', k \in DOMAIN added : d.id # added[k].id
  <2>1. \A d \in deleted, k \in DOMAIN clips : d.id # clips[k].id
    BY DEF IdInv
  <2>. QED
    BY <1>3, <1>5, <1>7, <2>1
<1>10. \A d, e \in deleted' : d.id = e.id => d = e
  BY DEF IdInv
<1>11. NotesApart(project.notes \union NotePool)
  BY DEF IdInv
<1>. QED
  BY <1>4, <1>7, <1>8, <1>9, <1>10, <1>11 DEF IdInv

\* A clip goes from the list to the deleted ones.
LEMMA RemovedClipIds ==
  ASSUME PlaybackType, IdInv, NEW k \in DOMAIN project.clips,
         project' = [project EXCEPT !.clips = RemoveAt(@, k)],
         deleted' = deleted \union {project.clips[k]}
  PROVE  IdInv'
<1>. DEFINE clips == project.clips
            left == RemoveAt(clips, k)
            was(j) == IF j < k THEN j ELSE j + 1
<1>1. clips \in Seq(ClipType) /\ Len(clips) \in Nat /\ DOMAIN clips = 1 .. Len(clips)
  BY DEF PlaybackType, ProjectType
<1>2. DOMAIN left = 1 .. Len(clips) - 1 /\ \A j \in DOMAIN left : left[j] = clips[was(j)]
  <2>1. DOMAIN left = 1 .. Len(clips) - 1 /\ \A j \in 1 .. Len(clips) - 1 : left[j] = clips[was(j)]
    BY <1>1, RemoveAtEntries
  <2>. HIDE DEF left, was, clips
  <2>. QED
    BY <2>1
<1>3. /\ project'.clips = left /\ project'.next_clip_id = project.next_clip_id
      /\ project'.notes = project.notes
  BY DEF PlaybackType, ProjectType
<1>4. \A j \in DOMAIN left : was(j) \in DOMAIN clips /\ was(j) # k
  BY <1>1, <1>2
<1>5. \A i, j \in DOMAIN left : was(i) = was(j) => i = j
  BY <1>1, <1>2
<1>6. /\ \A j \in DOMAIN clips : clips[j].id \in 1 .. project.next_clip_id - 1
      /\ \A i, j \in DOMAIN clips : clips[i].id = clips[j].id => i = j
      /\ \A c \in deleted : c.id \in 1 .. project.next_clip_id - 1
      /\ \A c, d \in deleted : c.id = d.id => c = d
      /\ \A c \in deleted, j \in DOMAIN clips : c.id # clips[j].id
      /\ NotesApart(project.notes \union NotePool)
  BY DEF IdInv, ClipsApart
<1>. HIDE DEF clips, left, was
<1>7. ClipsApart(project')
  <2>1. \A j \in DOMAIN left : left[j].id \in 1 .. project.next_clip_id - 1
    BY <1>2, <1>4, <1>6
  <2>2. \A i, j \in DOMAIN left : left[i].id = left[j].id => i = j
    BY <1>2, <1>4, <1>5, <1>6
  <2>3. project.next_clip_id = project'.next_clip_id /\ left = project'.clips
    BY <1>3
  <2>. QED
    BY <2>1, <2>2, <2>3 DEF ClipsApart
<1>8. deleted' = deleted \union {clips[k]} /\ k \in DOMAIN clips
  BY DEF clips
<1>9. \A c \in deleted' : c.id \in 1 .. project.next_clip_id - 1
  BY <1>6, <1>8
<1>10. \A c, d \in deleted' : c.id = d.id => c = d
  BY <1>6, <1>8
<1>11. \A c \in deleted', j \in DOMAIN left : c.id # left[j].id
  BY <1>2, <1>4, <1>6, <1>8
<1>. QED
  BY <1>3, <1>6, <1>7, <1>9, <1>10, <1>11 DEF IdInv

-----------------------------------------------------------------------------
(* What keeps on sounding *)

\* After an edit or a seek, what was held still sounds, or is given up.
LEMMA InterveneSounds ==
  ASSUME SoundInv, NEW p, NEW l, NEW pos, Intervene(p, l, pos),
         project' = p, loop' = l, position' = pos, voices' = voices
  PROVE  SoundInv'
<1>1. SUFFICES ASSUME ~spoiled' PROVE SoundInv'
  BY DEF SoundInv
<1>2. /\ ~spoiled /\ sounding' = sounding
      /\ \A i \in sounding : /\ i \in Instances(p) /\ Canonical(p, i) = Canonical(project, i)
                             /\ EndsAhead(p.bpm, l, pos, i)
  BY <1>1 DEF Intervene, Remember
<1>3. Sustaining(voices) = {NoteId(project, i) : i \in sounding}
  BY <1>2 DEF SoundInv
<1>4. \A i \in sounding : NoteId(p, i) = NoteId(project, i)
  BY <1>2 DEF NoteId
<1>5. Sustaining(voices') = {NoteId(project', i) : i \in sounding'}
  BY <1>2, <1>3, <1>4
<1>6. \A i \in sounding' : i \in Instances(project') /\ EndsAhead(tempo', loop', position', i)
  BY <1>2 DEF tempo
<1>. QED
  BY <1>5, <1>6 DEF SoundInv

\* Voices that are all free sustain nothing.
LEMMA FreeVoices == AllFree \in VoiceStates /\ Sustaining(AllFree) = {}
BY CapacityAssumption DEF AllFree, VoiceStates, Sustaining, Range

\* Silence is what silence should be.
LEMMA SilenceSounds ==
  ASSUME voices' = AllFree, ~spoiled' => sounding' = {}
  PROVE  SoundInv'
<1>1. Sustaining(voices') = {}
  BY FreeVoices
<1>. QED
  BY <1>1 DEF SoundInv

\* What no step touches sounds on.
LEMMA SameSounds ==
  ASSUME SoundInv, UNCHANGED <<project, loop, position, voices, history>>
  PROVE  SoundInv'
BY DEF SoundInv, history, Instances, Audible, NoteId, Canonical, EndsAhead, tempo,
       OnSample, OffSample

\* A quantum leaves voices that are typed.
LEMMA QuantumVoices ==
  ASSUME IInv, NEW n \in Frames, NEW kept \in Keeps(Block(n), Capacity),
         NEW order \in Orders(kept)
  PROVE  Played(order)[Len(order)] \in VoiceStates
<1>1. kept \subseteq EventType
  BY KeepsSome, BlockTyped DEF IInv
<1>2. PICK m \in 0 .. Capacity : order \in [1 .. m -> kept]
  BY DEF Orders, SeqOf
<1>3. m \in Nat /\ order \in [1 .. m -> EventType]
  BY <1>1, <1>2, CapacityAssumption
<1>4. order \in Seq(EventType) /\ Len(order) \in 0 .. Len(order)
  BY <1>3
<1>. QED
  BY <1>4, PlayedSteps DEF IInv, PlaybackType

\* A quantum leaves sustaining what should sound.
LEMMA QuantumSounds ==
  ASSUME IInv, NEW n \in Frames, PlayQuantum(n)
  PROVE  SoundInv'
<1>. DEFINE after == Sustained(Block(n), Sustaining(voices))
<1>1. SUFFICES ASSUME ~spoiled' PROVE SoundInv'
  BY DEF SoundInv
<1>2. PICK kept \in Keeps(Block(n), Capacity) : \E order \in Orders(kept) :
        /\ voices' = Played(order)[Len(order)] /\ sounding' = SoundingAfter(n)
        /\ ~spoiled /\ ~(Cardinality(Compiled(project)) > TrackCapacity)
        /\ kept = Block(n) /\ ~Steals(order) /\ Fits(n) /\ ~StartsUnending(n)
  BY <1>1 DEF PlayQuantum, Remember
<1>2a. PICK order \in Orders(Block(n)) :
         voices' = Played(order)[Len(order)] /\ ~Steals(order)
  BY <1>2
<1>3. project' = project /\ loop' = loop /\ position' = NextPosition(n)
  BY DEF PlayQuantum, document
<1>4. NextPosition(n) = Visit(n)
  BY <1>2, QuantumFollows DEF IInv
<1>5. track = Compiled(project)
  BY <1>2, TrackIsCompiled DEF IInv
<1>6. Sustaining(voices') = after
  <2>1. Block(n) \in SUBSET EventType /\ voices \in VoiceStates
    BY BlockTyped DEF IInv, PlaybackType
  <2>. QED
    BY <1>2a, <2>1, PlayedIsSustained
<1>7. \A i \in SoundingAfter(n) : i \in Instances(project) /\ EndsAhead(tempo, loop, Visit(n), i)
  BY <1>2, EndsAheadAfter
<1>8. \A i \in Instances(project) : NoteId(project, i) \in after <=> i \in SoundingAfter(n)
  BY <1>2, <1>5, InstanceSounds
<1>9. \A id \in after : \E i \in Instances(project) : id = NoteId(project, i)
  <2>1. TAKE id \in after
  <2>2. id \in Sustaining(voices) \/ \E x \in Block(n) : id = x.id
    BY DEF Sustained
  <2>3. CASE id \in Sustaining(voices)
    BY <1>2, <2>3 DEF IInv, SoundInv
  <2>4. CASE \E x \in Block(n) : id = x.id
    BY <1>2, <1>5, <2>4, BlockHasInstances DEF IInv
  <2>. QED
    BY <2>2, <2>3, <2>4
<1>. HIDE DEF after
<1>10. after = {NoteId(project, i) : i \in SoundingAfter(n)}
  BY <1>7, <1>8, <1>9
<1>11. Sustaining(voices') = {NoteId(project', i) : i \in sounding'}
  BY <1>2, <1>3, <1>6, <1>10
<1>12. \A i \in sounding' : i \in Instances(project') /\ EndsAhead(tempo', loop', position', i)
  BY <1>2, <1>3, <1>4, <1>7 DEF tempo
<1>. QED
  BY <1>11, <1>12 DEF SoundInv

-----------------------------------------------------------------------------
(* The inductive invariant *)

\* The first project is compiled, and its loop spans it.
LEMMA InitIInv == Init => IInv
<1>1. SUFFICES ASSUME Init PROVE IInv
  OBVIOUS
<1>2. project \in ProjectType
  BY <1>1 DEF Init
<1>3. loop \in LoopType
  BY <1>1, <1>2, LoopFitsProject DEF Init, LoopType
<1>4. IdInv
  <2>1. deleted = {} /\ project \in Projects
    BY <1>1 DEF Init
  <2>. QED
    BY <2>1, IdsAssumption DEF IdInv
<1>5. /\ sounding = {} /\ voices \in VoiceStates /\ Sustaining(voices) = {}
      /\ track \in Tracked(project)
  BY <1>1, FreeVoices DEF Init
<1>6. SoundInv
  BY <1>5 DEF SoundInv
<1>. QED
  BY <1>1, <1>2, <1>3, <1>4, <1>5, <1>6 DEF Init, IInv, PlaybackType, TrackInv

\* An edit of the clips gives a project again.
LEMMA ClipsKeepType ==
  ASSUME NEW p \in ProjectType, NEW k \in DOMAIN p.clips
  PROVE  /\ p.clips[k] \in ClipType
         /\ \A c \in ClipType : /\ [p EXCEPT !.clips[k] = c] \in ProjectType
                                /\ [p EXCEPT !.clips = Append(@, c)] \in ProjectType
         /\ [p EXCEPT !.clips = RemoveAt(@, k)] \in ProjectType
<1>1. /\ p.clips \in Seq(ClipType) /\ DOMAIN p.clips = 1 .. Len(p.clips)
      /\ Len(p.clips) \in Nat /\ k \in 1 .. Len(p.clips)
  BY DEF ProjectType
<1>2. p.clips[k] \in ClipType
  BY <1>1
<1>3. ASSUME NEW s \in Seq(ClipType) PROVE [p EXCEPT !.clips = s] \in ProjectType
  BY DEF ProjectType
<1>4. ASSUME NEW c \in ClipType PROVE [p EXCEPT !.clips[k] = c] \in ProjectType
  <2>1. [p.clips EXCEPT ![k] = c] \in Seq(ClipType)
    BY <1>1, ExceptSeq
  <2>2. [p EXCEPT !.clips[k] = c] = [p EXCEPT !.clips = [p.clips EXCEPT ![k] = c]]
    BY DEF ProjectType
  <2>. QED
    BY <1>3, <2>1, <2>2
<1>5. ASSUME NEW c \in ClipType PROVE [p EXCEPT !.clips = Append(@, c)] \in ProjectType
  <2>1. Append(p.clips, c) \in Seq(ClipType)
    BY <1>1
  <2>. QED
    BY <1>3, <2>1
<1>6. [p EXCEPT !.clips = RemoveAt(@, k)] \in ProjectType
  <2>1. SubSeq(p.clips, 1, k - 1) \in Seq(ClipType)
    BY <1>1, SubSeqProperties
  <2>2. SubSeq(p.clips, k + 1, Len(p.clips)) \in Seq(ClipType)
    BY <1>1, SubSeqProperties
  <2>3. RemoveAt(p.clips, k) \in Seq(ClipType)
    BY <2>1, <2>2, ConcatProperties DEF RemoveAt
  <2>. QED
    BY <1>3, <2>3
<1>. QED
  BY <1>2, <1>4, <1>5, <1>6

\* Compiling what is edited keeps the invariant.
LEMMA SyncIInv ==
  ASSUME IInv, NEW p \in ProjectType, Sync(p), deleted' \subseteq ClipType, IdInv'
  PROVE  IInv'
<1>1. /\ project' = p /\ track' \in Tracked(p) /\ Intervene(p, loop, position)
      /\ loop' = loop /\ position' = position /\ voices' = voices
  BY DEF Sync
<1>2. SoundInv'
  BY <1>1, InterveneSounds DEF IInv
<1>3. PlaybackType'
  BY <1>1 DEF IInv, PlaybackType, LoopType
<1>4. TrackInv'
  BY <1>1 DEF TrackInv
<1>. QED
  BY <1>2, <1>3, <1>4 DEF IInv

\* Every edit keeps the invariant.
LEMMA EditIInv == ASSUME IInv, Edit PROVE IInv'
<1>1. /\ project \in ProjectType /\ deleted \subseteq ClipType /\ loop \in LoopType
      /\ position \in 0 .. MaxPos /\ project.clips \in Seq(ClipType)
      /\ PlaybackType /\ TrackInv /\ IdInv /\ SoundInv
  BY DEF IInv, PlaybackType, ProjectType
<1>2. CASE EditProject
  <2>1. deleted' = deleted
    BY <1>2 DEF EditProject
  <2>2. ASSUME NEW p \in ProjectType, Sync(p), p.clips = project.clips,
               p.next_clip_id = project.next_clip_id,
               p.notes \subseteq project.notes \union NotePool
        PROVE  IInv'
    <3>1. project' = p
      BY <2>2 DEF Sync
    <3>2. IdInv'
      BY <1>1, <2>1, <2>2, <3>1, SameClipIds
    <3>. QED
      BY <1>1, <2>1, <2>2, <3>2, SyncIInv
  <2>3. ASSUME NEW n \in NotePool, Sync(Drawn(n)) PROVE IInv'
    <3>1. /\ Drawn(n) \in ProjectType /\ Drawn(n).clips = project.clips
          /\ Drawn(n).next_clip_id = project.next_clip_id
          /\ Drawn(n).notes \subseteq project.notes \union NotePool
      BY <1>1 DEF Drawn, ProjectType
    <3>. QED
      BY <2>2, <2>3, <3>1
  <2>4. ASSUME NEW p \in ProjectType, Sync(p),
               \/ \E M \in SUBSET Tracks : p = [project EXCEPT !.muted = M]
               \/ \E S \in SUBSET Tracks : p = [project EXCEPT !.solo = S]
               \/ \E t \in Tempos : p = [project EXCEPT !.bpm = t]
        PROVE  IInv'
    <3>1. /\ p.clips = project.clips /\ p.next_clip_id = project.next_clip_id
          /\ p.notes = project.notes
      BY <1>1, <2>4 DEF ProjectType
    <3>. QED
      BY <2>2, <2>4, <3>1
  <2>5. ASSUME NEW tr \in Tracks
        PROVE  /\ SymDiff(project.muted, {tr}) \in SUBSET Tracks
               /\ SymDiff(project.solo, {tr}) \in SUBSET Tracks
    BY <1>1 DEF ProjectType, SymDiff
  <2>6. /\ \A M \in SUBSET Tracks : [project EXCEPT !.muted = M] \in ProjectType
        /\ \A S \in SUBSET Tracks : [project EXCEPT !.solo = S] \in ProjectType
        /\ \A t \in Tempos : [project EXCEPT !.bpm = t] \in ProjectType
    BY <1>1 DEF ProjectType
  <2>7. \/ \E n \in NotePool : Sync(Drawn(n))
        \/ \E M \in SUBSET Tracks : Sync([project EXCEPT !.muted = M])
        \/ \E S \in SUBSET Tracks : Sync([project EXCEPT !.solo = S])
        \/ \E t \in Tempos : Sync([project EXCEPT !.bpm = t])
    BY <1>2, <2>5 DEF EditProject
  <2>. QED
    BY <2>3, <2>4, <2>6, <2>7
<1>3. CASE EditArrangement
  <2>1. PICK k \in DOMAIN project.clips :
          \/ \E start \in ClipStarts, tr \in Tracks : MoveClip(k, start, tr)
          \/ \E duration \in ClipDurations : ResizeClip(k, duration)
          \/ DuplicateClip(k)
          \/ DeleteClip(k)
    BY <1>3 DEF EditArrangement
  <2>. DEFINE c == project.clips[k]
  <2>2. c \in ClipType
    BY <1>1, ClipsKeepType
  <2>3. ASSUME NEW d \in ClipType, d.id = c.id, Sync([project EXCEPT !.clips[k] = d]),
               deleted' = deleted
        PROVE  IInv'
    <3>. DEFINE p == [project EXCEPT !.clips[k] = d]
    <3>1. p \in ProjectType
      BY <1>1, ClipsKeepType
    <3>2. /\ DOMAIN p.clips = DOMAIN project.clips
          /\ \A j \in DOMAIN p.clips : p.clips[j].id = project.clips[j].id
          /\ p.next_clip_id = project.next_clip_id /\ p.notes = project.notes
      BY <1>1, <2>3 DEF ProjectType
    <3>3. project' = p
      BY <2>3 DEF Sync
    <3>. HIDE DEF p
    <3>4. IdInv'
      BY <1>1, <2>3, <3>2, <3>3, SameClipIds
    <3>5. Sync(p)
      BY <2>3 DEF p
    <3>. QED
      BY <1>1, <2>3, <3>1, <3>4, <3>5, SyncIInv
  <2>4. ASSUME NEW start \in ClipStarts, NEW tr \in Tracks, MoveClip(k, start, tr)
        PROVE  IInv'
    <3>. DEFINE d == [c EXCEPT !.start = start, !.track = tr]
    <3>1. d \in ClipType /\ d.id = c.id
      BY <2>2 DEF ClipType
    <3>2. Sync([project EXCEPT !.clips[k] = d]) /\ deleted' = deleted
      BY <2>4 DEF MoveClip
    <3>. HIDE DEF d
    <3>. QED
      BY <2>3, <3>1, <3>2
  <2>5. ASSUME NEW duration \in ClipDurations, ResizeClip(k, duration) PROVE IInv'
    <3>. DEFINE d == [c EXCEPT !.duration = duration]
    <3>1. d \in ClipType /\ d.id = c.id
      BY <2>2 DEF ClipType
    <3>2. Sync([project EXCEPT !.clips[k] = d]) /\ deleted' = deleted
      BY <2>5 DEF ResizeClip
    <3>. HIDE DEF d
    <3>. QED
      BY <2>3, <3>1, <3>2
  <2>6. CASE DuplicateClip(k)
    <3>. DEFINE id == project.next_clip_id
                copy == [c EXCEPT !.id = id, !.start = ClipEnd(c)]
                p == [project EXCEPT !.clips = Append(@, copy), !.next_clip_id = id + 1]
    <3>1. id \in Nat /\ id >= 1 /\ copy \in ClipType /\ copy.id = id
      <4>1. id \in Nat
        BY <1>1 DEF ProjectType
      <4>2. id >= 1
        <5>1. c.id \in 1 .. id - 1
          BY <1>1 DEF IdInv, ClipsApart
        <5>. QED
          BY <4>1, <5>1
      <4>3. ClipEnd(c) \in Nat
        BY <2>2 DEF ClipEnd, ClipType
      <4>. HIDE DEF c, id
      <4>. QED
        BY <2>2, <4>1, <4>2, <4>3 DEF ClipType
    <3>2. ASSUME NEW s \in Seq(ClipType), NEW m \in Nat
          PROVE  [project EXCEPT !.clips = s, !.next_clip_id = m] \in ProjectType
      BY <1>1 DEF ProjectType
    <3>3. Append(project.clips, copy) \in Seq(ClipType)
      <4>. HIDE DEF copy
      <4>. QED
        BY <1>1, <3>1
    <3>4. p \in ProjectType
      <4>1. id + 1 \in Nat
        BY <3>1
      <4>. QED
        BY <3>2, <3>3, <4>1
    <3>5. Sync(p) /\ deleted' = deleted
      BY <2>6 DEF DuplicateClip
    <3>6. project' = p
      BY <3>5 DEF Sync
    <3>7. copy \notin deleted'
      <4>1. \A d \in deleted : d.id \in 1 .. id - 1
        BY <1>1 DEF IdInv
      <4>. HIDE DEF copy, id
      <4>. QED
        BY <3>1, <3>5, <4>1
    <3>8. id + 1 \in Nat /\ id + 1 >= id /\ copy.id \in 1 .. (id + 1) - 1
      <4>. HIDE DEF copy, id
      <4>. QED
        BY <3>1
    <3>9. IdInv'
      <4>1. project' = [project EXCEPT !.clips = Append(@, copy), !.next_clip_id = id + 1]
        BY <3>6
      <4>. HIDE DEF copy
      <4>. QED
        BY <1>1, <3>1, <3>5, <3>7, <3>8, <4>1, AddedClipIds
    <3>. HIDE DEF p
    <3>. QED
      BY <1>1, <3>4, <3>5, <3>9, SyncIInv
  <2>7. CASE DeleteClip(k)
    <3>. DEFINE p == [project EXCEPT !.clips = RemoveAt(@, k)]
    <3>1. p \in ProjectType
      BY <1>1, ClipsKeepType
    <3>2. Sync(p) /\ deleted' = deleted \union {c}
      BY <2>7 DEF DeleteClip
    <3>3. project' = p
      BY <3>2 DEF Sync
    <3>4. IdInv'
      BY <1>1, <3>2, <3>3, RemovedClipIds
    <3>. HIDE DEF p
    <3>. QED
      BY <1>1, <2>2, <3>1, <3>2, <3>4, SyncIInv
  <2>. QED
    BY <2>1, <2>4, <2>5, <2>6, <2>7
<1>4. CASE EditLoop
  <2>1. ASSUME NEW l \in LoopType, SetLoop(l) PROVE IInv'
    <3>1. /\ loop' = l /\ Intervene(project, l, position) /\ project' = project
          /\ deleted' = deleted /\ track' = track /\ position' = position /\ voices' = voices
      BY <2>1 DEF SetLoop
    <3>2. SoundInv'
      BY <1>1, <3>1, InterveneSounds
    <3>3. IdInv'
      BY <1>1, <3>1 DEF IdInv, ClipsApart, NotesApart
    <3>4. PlaybackType' /\ TrackInv'
      BY <1>1, <3>1 DEF PlaybackType, TrackInv
    <3>. QED
      BY <3>2, <3>3, <3>4 DEF IInv
  <2>2. ASSUME NEW r \in LoopRanges
        PROVE  RangeOf(r).start \in Nat /\ RangeOf(r).end \in Nat
    BY DEF RangeOf
  <2>3. ASSUME NEW start \in Nat, NEW end \in Nat
        PROVE  [loop EXCEPT !.start = start, !.end = end] \in LoopType
    BY <1>1 DEF LoopType
  <2>4. [loop EXCEPT !.enabled = ~@] \in LoopType
    BY <1>1 DEF LoopType
  <2>. QED
    BY <1>4, <2>1, <2>2, <2>3, <2>4 DEF EditLoop
<1>5. CASE RebuildPlan
  <2>1. /\ UNCHANGED <<document, position>> /\ voices' = AllFree
        /\ Remember(sounding, spoiled \/ sounding # {})
    BY <1>5 DEF RebuildPlan
  <2>2. ~spoiled' => sounding' = {}
    BY <2>1 DEF Remember
  <2>3. SoundInv'
    BY <2>1, <2>2, SilenceSounds
  <2>4. PlaybackType' /\ TrackInv'
    BY <1>1, <2>1, FreeVoices DEF document, PlaybackType, TrackInv
  <2>5. IdInv'
    BY <1>1, <2>1 DEF document, IdInv, ClipsApart, NotesApart
  <2>. QED
    BY <2>3, <2>4, <2>5 DEF IInv
<1>6. ASSUME NEW p \in Projects, OpenProject(p) PROVE IInv'
  <2>1. /\ project' = p /\ p \in ProjectType /\ deleted' = {} /\ position' = position
        /\ voices' = AllFree /\ sounding' = {}
    BY <1>6 DEF OpenProject, Silence, Remember
  <2>2. loop' \in LoopType
    BY <1>1, <1>6, <2>1, LoopFitsProject DEF OpenProject, LoopType
  <2>3. track' \in Tracked(project')
    BY <1>6 DEF OpenProject
  <2>4. SoundInv'
    BY <2>1, SilenceSounds
  <2>5. IdInv'
    <3>1. ClipsApart(project') /\ NotesApart(project'.notes \union NotePool)
      BY <2>1, IdsAssumption
    <3>. QED
      BY <2>1, <3>1 DEF IdInv
  <2>6. PlaybackType' /\ TrackInv'
    BY <1>1, <2>1, <2>2, <2>3, FreeVoices DEF PlaybackType, TrackInv
  <2>. QED
    BY <2>4, <2>5, <2>6 DEF IInv
<1>. QED
  BY <1>2, <1>3, <1>4, <1>5, <1>6 DEF Edit

\* Every step keeps the invariant.
LEMMA NextIInv == IInv /\ [Next]_vars => IInv'
<1>1. SUFFICES ASSUME IInv, [Next]_vars PROVE IInv'
  OBVIOUS
<1>2. /\ project \in ProjectType /\ deleted \subseteq ClipType /\ loop \in LoopType
      /\ position \in 0 .. MaxPos
      /\ PlaybackType /\ TrackInv /\ IdInv /\ SoundInv
      /\ voices \in VoiceStates /\ track \in Tracked(project)
  BY <1>1 DEF IInv, PlaybackType, TrackInv
<1>3. LoopStart \in Nat
  BY <1>2, SampleNat DEF LoopStart, tempo, ProjectType, LoopType
<1>4. ASSUME UNCHANGED <<project, deleted, loop>>, track' \in Tracked(project),
             position' \in 0 .. MaxPos, voices' \in VoiceStates, SoundInv'
      PROVE  IInv'
  <2>1. PlaybackType' /\ TrackInv'
    BY <1>2, <1>4 DEF PlaybackType, TrackInv
  <2>2. IdInv'
    BY <1>2, <1>4 DEF IdInv, ClipsApart, NotesApart
  <2>. QED
    BY <1>4, <2>1, <2>2 DEF IInv
<1>5. CASE Edit
  BY <1>1, <1>5, EditIInv
<1>6. ASSUME NEW c \in deleted, RestoreClip(c) PROVE IInv'
  <2>. DEFINE p == [project EXCEPT !.clips = Append(@, c)]
              next == project.next_clip_id
  <2>1. Append(project.clips, c) \in Seq(ClipType) /\ next \in Nat
    BY <1>2 DEF ProjectType
  <2>2. p \in ProjectType /\ p = [project EXCEPT !.clips = Append(@, c), !.next_clip_id = next]
    BY <1>2, <2>1 DEF ProjectType
  <2>3. Sync(p) /\ project' = p /\ deleted' = deleted \ {c}
    BY <1>6 DEF RestoreClip, Sync
  <2>4. c \in ClipType /\ c.id \in 1 .. next - 1 /\ c \notin deleted' /\ deleted' \subseteq deleted
    BY <1>2, <2>3 DEF IdInv
  <2>. HIDE DEF p
  <2>5. project' = [project EXCEPT !.clips = Append(@, c), !.next_clip_id = next] /\ next >= next
    BY <2>1, <2>2, <2>3
  <2>6. IdInv'
    BY <1>2, <2>1, <2>4, <2>5, AddedClipIds
  <2>. QED
    BY <1>1, <1>2, <2>2, <2>3, <2>6, SyncIInv
<1>7. ASSUME NEW beat \in SeekTargets, SeekBeats(beat) PROVE IInv'
  <2>1. Sample(tempo, beat) \in Nat
    BY <1>2, SampleNat DEF tempo, ProjectType
  <2>2. /\ UNCHANGED document /\ position' = Sample(tempo, beat) /\ position' \in 0 .. MaxPos
        /\ voices' = voices /\ Intervene(project, loop, Sample(tempo, beat))
    BY <1>7, <2>1 DEF SeekBeats
  <2>3. SoundInv'
    BY <1>2, <2>2, InterveneSounds DEF document
  <2>. QED
    BY <1>2, <1>4, <2>2, <2>3 DEF document
<1>8. CASE Play
  <2>1. position' \in 0 .. MaxPos
    BY <1>2, <1>3, <1>8 DEF Play
  <2>2. /\ project' = project /\ deleted' = deleted /\ loop' = loop
        /\ track' \in Tracked(project) /\ voices' = voices
        /\ Intervene(project, loop, position')
    BY <1>8 DEF Play
  <2>3. SoundInv'
    BY <1>2, <2>2, InterveneSounds
  <2>. QED
    BY <1>2, <1>4, <2>1, <2>2, <2>3
<1>9. CASE Stop
  BY <1>2, <1>4, <1>9, SameSounds DEF Stop, document
<1>10. CASE OnTimerTick
  BY <1>2, <1>4, <1>10, SameSounds DEF OnTimerTick, document
<1>11. ASSUME NEW n \in Frames, PlayQuantum(n) PROVE IInv'
  <2>1. NextPosition(n) \in Nat
    BY <1>2, NextPositionNat
  <2>2. position' \in 0 .. MaxPos /\ UNCHANGED document
    BY <1>11, <2>1 DEF PlayQuantum
  <2>3. SoundInv'
    BY <1>1, <1>11, QuantumSounds
  <2>4. voices' \in VoiceStates
    BY <1>1, <1>11, QuantumVoices DEF PlayQuantum
  <2>. QED
    BY <1>2, <1>4, <2>2, <2>3, <2>4 DEF document
<1>12. CASE StoppedQuantum
  <2>1. /\ UNCHANGED <<document, position>> /\ voices' = AllFree /\ sounding' = {}
    BY <1>12 DEF StoppedQuantum, Silence, Remember
  <2>. QED
    BY <1>2, <1>4, <2>1, FreeVoices, SilenceSounds DEF document
<1>13. CASE UNCHANGED vars
  BY <1>2, <1>4, <1>13, SameSounds DEF vars, document
<1>. QED
  BY <1>1, <1>5, <1>6, <1>7, <1>8, <1>9, <1>10, <1>11, <1>12, <1>13 DEF Next

-----------------------------------------------------------------------------
(* Theorems *)

\* The types hold, and the engine has the compiled project, in every state.
THEOREM Invariance == Spec => []IInv
BY InitIInv, NextIInv, PTL DEF Spec

\* A quantum of any size plays the events the playhead passes, each at its
\* sample, and goes on where they end: through either segment of the loop, and
\* behind its end, where the 32-bit offsets wrap (AudioEngine::process() and
\* advance_quantum()).
THEOREM QuantumFollowsTimeline == Spec => []WalkFollowsTimeline
<1>1. IInv => WalkFollowsTimeline
  BY QuantumFollows DEF IInv, WalkFollowsTimeline
<1>. QED
  BY Invariance, <1>1, PTL

\* The metronome clicks on every beat the playhead passes and on no other,
\* whatever the tempo and wherever the playhead is: no rounding of ticks and
\* samples loses or adds a beat between two quanta or at the seam of the loop
\* (check_beats of process()).  Only a quantum that begins at or behind the loop's
\* end adds those from the loop's start to where the playhead goes on.
THEOREM MetronomeKeepsTime == Spec => []ClicksOnTheBeat
<1>1. ASSUME PlaybackType, NEW n \in Frames, Fits(n)
      PROVE  LET passed == {b \in 0 .. position + n :
                              \E k \in 0 .. n - 1 :
                                 Visit(k) = Sample(tempo, b * TicksPerBeat)}
             IN  /\ Clicked(n) \subseteq passed \union Skipped
                 /\ passed \subseteq Clicked(n) \union {metronome.last_beat}
  <2>. DEFINE passed == {b \in 0 .. position + n :
                           \E k \in 0 .. n - 1 :
                              Visit(k) = Sample(tempo, b * TicksPerBeat)}
              F == FirstWindow(n)
              S == SecondWindow(n)
  <2>1. F \union S = passed \union Skipped
    BY <1>1, WindowsArePassed
  <2>2. position + n \in Nat
    BY <1>1 DEF PlaybackType
  <2>3. F \in SUBSET Nat /\ \A b \in F : b <= position + n
    <3>1. \A b \in Skipped : b \in Nat /\ b <= position + n
      BY <1>1, SkippedBeats
    <3>. HIDE DEF F
    <3>. QED
      BY <2>1, <2>2, <3>1
  <2>4. F = {} \/ Max(F) \in F
    <3>. HIDE DEF F
    <3>. QED
      BY <2>2, <2>3, WindowHasLargest
  <2>5. Clicked(n) = Clicks(F, metronome.last_beat)
                       \union Clicks(S, LastOf(F, metronome.last_beat))
    BY DEF Clicked
  <2>. HIDE DEF F, S, passed
  <2>6. /\ Clicked(n) \subseteq F \union S
        /\ F \union S \subseteq Clicked(n) \union {metronome.last_beat}
    BY <2>3, <2>4, <2>5, ClicksOfWindows
  <2>. QED
    BY <2>1, <2>6 DEF passed
<1>2. IInv => ClicksOnTheBeat
  BY <1>1 DEF IInv, ClicksOnTheBeat
<1>. QED
  BY Invariance, <1>2, PTL

\* What sustains in the synth is what the project says should sound: however the
\* project was edited, the tempo, loop and playhead moved and the quanta were cut,
\* for any number of voices and sizes of block and track, up to the first of the
\* exceptions that SoundsAsWritten lists (compile_project_events(), process() and
\* the renderer's apply_event).
THEOREM HeldIsWritten == Spec => []SoundsAsWritten
<1>1. IInv => SoundsAsWritten
  BY DEF IInv, SoundInv, SoundsAsWritten, Sustaining
<1>. QED
  BY Invariance, <1>1, PTL
=============================================================================
