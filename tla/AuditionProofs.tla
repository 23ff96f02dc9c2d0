-------------------------- MODULE AuditionProofs --------------------------
(***************************************************************************)
(* That the engine knows of every key that sounds (HeldAuditionIsKnown)    *)
(* and that what sounds last is the last call (LatestCallSounds), for any  *)
(* number of voices, presses, songs and resets.                            *)
(***************************************************************************)
EXTENDS Audition, WellFoundedInduction, TLAPS

VoiceType == [stage : Stage, level : Nat, age : Nat,
              note_id : {NoNote, SongNoteId, kAuditionNoteId},
              sound : Nat \X Nat]
VoicesType == [VoiceIndex -> VoiceType]

TypeOK ==
  /\ audition_pitch \in Nat /\ audition_velocity \in Nat
  /\ audition_trigger \in Nat /\ audition_release \in Nat
  /\ playing \in BOOLEAN /\ reset_pending \in BOOLEAN /\ snap_playing \in BOOLEAN
  /\ ctl \in {"idle", "pitch_stored", "velocity_stored"}
  /\ call \in Nat \X Nat
  /\ rt \in {"idle", "started", "trigger_loaded", "counters_loaded",
             "pitch_loaded", "rendering"}
  /\ aud_trig \in Nat /\ aud_rel \in Nat /\ pitch \in Nat /\ vel \in Nat
  /\ last_audition_trigger \in Nat /\ last_audition_release \in Nat
  /\ audition_active \in BOOLEAN /\ clicked \in BOOLEAN
  /\ voices \in VoicesType
  /\ songs \in Nat /\ resets \in Nat

\* The voices that hold a note of the audition.
Keys(vs) == {v \in Held(vs) : vs[v].note_id = kAuditionNoteId}

\* The youngest of them has the sound s.
YoungestSounds(vs, s) ==
  \A v \in Keys(vs) : (\A u \in Keys(vs) : vs[u].age <= vs[v].age) => vs[v].sound = s

\* No two voices that hold a note were started at once.
AgesDiffer(vs) == \A u, v \in Held(vs) : vs[u].age = vs[v].age => u = v

\* RT handles presses in order.
CounterInv ==
  /\ last_audition_trigger <= aud_trig
  /\ aud_trig <= audition_trigger

\* A press and a release that one quantum handles are marked as a click.
ClickInv ==
  (rt \in {"counters_loaded", "pitch_loaded", "rendering"} /\ Triggered /\ Released)
    => clicked

\* HeldAuditionIsKnown, also in the middle of a quantum.
KnownInv == (~clicked /\ Keys(voices) # {}) => audition_active

\* What RT loaded is of one call, unless a younger one has begun.
PairInv ==
  (Triggered /\ ctl = "idle" /\ audition_trigger = aud_trig) =>
    /\ rt \in {"pitch_loaded", "rendering"} => pitch = audition_pitch
    /\ rt = "rendering" => vel = audition_velocity

\* LatestCallSounds, also in the middle of a quantum.
LatestInv ==
  (ctl = "idle" /\ audition_trigger = last_audition_trigger) =>
    YoungestSounds(voices, <<audition_pitch, audition_velocity>>)

IInv ==
  /\ TypeOK
  /\ CounterInv
  /\ ClickInv
  /\ KnownInv
  /\ AgesDiffer(voices)
  /\ PairInv
  /\ LatestInv

USE VoiceAssumption, LevelsAssumption, SoundsAssumption, BoundsAssumption

-----------------------------------------------------------------------------
(* Least and largest *)

\* A set of naturals has a least element, which Min chooses.
LEMMA LeastNat == ASSUME NEW T \in SUBSET Nat, T # {}
                  PROVE  Min(T) \in T /\ \A y \in T : Min(T) <= y
<1>. DEFINE R == OpToRel(<, Nat)
<1>1. \A x, y \in Nat : x < y => <<x, y>> \in R
  BY Zenon DEF OpToRel
<1>2. IsWellFoundedOn(R, Nat)
  BY NatLessThanWellFounded, Zenon
<1>. HIDE DEF R
<1>3. PICK x \in T : \A y \in T : <<y, x>> \notin R
  BY <1>2, WFMin, Zenon
<1>4. \A y \in T : ~(y < x)
  BY <1>1, <1>3, Zenon
<1>5. \A y \in T : x <= y
  BY <1>3, <1>4
<1>. QED
  BY <1>3, <1>5 DEF Min

\* A bound of a list of naturals: there is one for each of its beginnings.
LEMMA BoundedNats ==
  ASSUME NEW n \in Nat, NEW f, \A k \in 1 .. n : f[k] \in Nat
  PROVE  \E u \in Nat : \A k \in 1 .. n : f[k] <= u
<1>. DEFINE Has(m) == \E u \in Nat : \A k \in 1 .. m : f[k] <= u
            Bad == {m \in 0 .. n : ~Has(m)}
<1>1. ASSUME Bad # {} PROVE FALSE
  <2>. DEFINE m == Min(Bad)
  <2>1. m \in Bad /\ \A y \in Bad : m <= y
    <3>1. Bad \in SUBSET Nat
      OBVIOUS
    <3>. HIDE DEF Bad
    <3>. QED
      BY <1>1, <3>1, LeastNat
  <2>2. m \in 0 .. n /\ ~Has(m)
    BY <2>1
  <2>. HIDE DEF m
  <2>3. Has(0)
    OBVIOUS
  <2>4. m # 0
    BY <2>2, <2>3
  <2>5. m - 1 \in 0 .. n /\ m - 1 \notin Bad
    <3>. HIDE DEF Bad
    <3>. QED
      BY <2>1, <2>2, <2>4
  <2>6. PICK u \in Nat : \A k \in 1 .. m - 1 : f[k] <= u
    BY <2>5
  <2>7. f[m] \in Nat /\ \A k \in 1 .. m : f[k] \in Nat
    BY <2>2, <2>4
  <2>8. \A k \in 1 .. m : f[k] <= u + f[m]
    BY <2>2, <2>6, <2>7, SMTT(20)
  <2>9. u + f[m] \in Nat
    BY <2>7
  <2>. QED
    BY <2>2, <2>8, <2>9
<1>2. n \notin Bad
  <2>. HIDE DEF Bad
  <2>. QED
    BY <1>1
<1>. QED
  BY <1>2

\* A NoteOn makes its voice the youngest of all.
LEMMA NextAgeIsNew ==
  ASSUME NEW vs \in VoicesType
  PROVE  NextAge(vs) \in Nat /\ \A v \in VoiceIndex : vs[v].age < NextAge(vs)
<1>. DEFINE Ages == {vs[v].age : v \in VoiceIndex}
            f == [v \in VoiceIndex |-> vs[v].age]
            Bounds == {u \in Nat : \A a \in Ages : a <= u}
            b == Min(Bounds)
<1>1. Ages \subseteq Nat /\ \A v \in VoiceIndex : vs[v].age \in Nat
  BY DEF VoicesType, VoiceType
<1>2. vs[1].age \in Ages
  BY DEF VoiceIndex
<1>3. \E u \in Nat : \A k \in 1 .. VoiceCount : f[k] <= u
  <2>1. \A k \in 1 .. VoiceCount : f[k] \in Nat
    BY <1>1 DEF VoiceIndex
  <2>. HIDE DEF f
  <2>. QED
    BY <2>1, BoundedNats
<1>4. Bounds # {}
  BY <1>3 DEF VoiceIndex
<1>5. b \in Bounds /\ \A u \in Bounds : b <= u
  BY <1>4, LeastNat
<1>. HIDE DEF b, f
<1>6. b \in Nat /\ \A a \in Ages : a <= b
  BY <1>5
<1>7. b \in Ages
  <2>1. SUFFICES ASSUME b \notin Ages PROVE FALSE
    OBVIOUS
  <2>. HIDE DEF Ages
  <2>2. b # 0
    <3>1. vs[1].age \in Nat /\ vs[1].age <= b
      BY <1>1, <1>2, <1>6
    <3>2. vs[1].age # b
      BY <1>2, <2>1
    <3>. QED
      BY <1>6, <3>1, <3>2
  <2>3. b - 1 \in Nat /\ \A a \in Ages : a <= b - 1
    BY <1>1, <1>6, <2>1, <2>2
  <2>4. b - 1 \in Bounds
    BY <2>3
  <2>. QED
    BY <1>5, <1>6, <2>4
<1>. DEFINE top == Max(Ages)
<1>8. top \in Ages /\ \A a \in Ages : top >= a
  <2>1. \E x \in Ages : \A a \in Ages : x >= a
    BY <1>1, <1>6, <1>7
  <2>. HIDE DEF Ages
  <2>. QED
    BY <2>1 DEF Max
<1>9. NextAge(vs) = 1 + top
  BY DEF NextAge
<1>. HIDE DEF top
<1>10. top \in Nat
  BY <1>1, <1>8
<1>11. \A v \in VoiceIndex : vs[v].age \in Nat /\ top >= vs[v].age
  BY <1>1, <1>8
<1>. QED
  BY <1>9, <1>10, <1>11

\* The voice a NoteOn takes is one of the pool; if it holds a note, it is an
\* oldest of all.
LEMMA ChosenVoice ==
  ASSUME NEW vs \in VoicesType
  PROVE  /\ Chosen(vs) \in VoiceIndex
         /\ Chosen(vs) \in Held(vs) =>
              \A u \in VoiceIndex : vs[Chosen(vs)].age <= vs[u].age
<1>. DEFINE free == VoiceIndex \ Active(vs)
            quietest == {v \in Releasing(vs) :
                           \A u \in Releasing(vs) : vs[v].level <= vs[u].level}
            oldest == {v \in VoiceIndex : \A u \in VoiceIndex : vs[v].age <= vs[u].age}
<1>1. \A v \in VoiceIndex : vs[v].age \in Nat
  BY DEF VoicesType, VoiceType
<1>2. /\ free \in SUBSET Nat /\ quietest \in SUBSET Nat /\ oldest \in SUBSET Nat
      /\ free \subseteq VoiceIndex /\ quietest \subseteq VoiceIndex
      /\ oldest \subseteq VoiceIndex
  BY DEF VoiceIndex, Active, Releasing
<1>3. oldest # {}
  <2>. DEFINE Ages == {vs[v].age : v \in VoiceIndex}
  <2>1. Ages \in SUBSET Nat
    BY <1>1
  <2>2. Ages # {}
    BY DEF VoiceIndex
  <2>3. Min(Ages) \in Ages /\ \A y \in Ages : Min(Ages) <= y
    BY <2>1, <2>2, LeastNat
  <2>4. PICK v \in VoiceIndex : vs[v].age = Min(Ages)
    BY <2>3
  <2>5. \A u \in VoiceIndex : vs[v].age <= vs[u].age
    BY <2>3, <2>4
  <2>. QED
    BY <2>5
<1>4. free \cap Held(vs) = {} /\ quietest \cap Held(vs) = {}
  BY DEF Active, Held, Releasing
<1>5. Chosen(vs) = CASE free # {} -> Min(free)
                     [] free = {} /\ quietest # {} -> Min(quietest)
                     [] OTHER -> Min(oldest)
  BY DEF Chosen
<1>6. \A v \in oldest : \A u \in VoiceIndex : vs[v].age <= vs[u].age
  OBVIOUS
<1>. HIDE DEF free, quietest, oldest
<1>7. CASE free # {}
  <2>1. Chosen(vs) = Min(free)
    BY <1>5, <1>7
  <2>. QED
    BY <1>2, <1>4, <1>7, <2>1, LeastNat
<1>8. CASE free = {} /\ quietest # {}
  <2>1. Chosen(vs) = Min(quietest)
    BY <1>5, <1>8
  <2>. QED
    BY <1>2, <1>4, <1>8, <2>1, LeastNat, ZenonT(30)
<1>9. CASE free = {} /\ quietest = {}
  <2>1. Chosen(vs) = Min(oldest)
    BY <1>5, <1>9
  <2>2. Chosen(vs) \in oldest
    BY <1>2, <1>3, <2>1, LeastNat
  <2>. QED
    BY <1>2, <1>6, <2>2
<1>. QED
  BY <1>7, <1>8, <1>9

-----------------------------------------------------------------------------
(* What the operations on voices keep *)

\* The voices ws hold no note but those vs hold.
HoldsNoMore(ws, vs) ==
  /\ ws \in VoicesType
  /\ Held(ws) \subseteq Held(vs)
  /\ \A v \in Held(ws) : /\ ws[v].age = vs[v].age
                         /\ ws[v].note_id = vs[v].note_id
                         /\ ws[v].sound = vs[v].sound

\* All of the audition is kept, or none of it.
KeysKept(ws, vs) == Keys(ws) = Keys(vs) \/ Keys(ws) = {}

\* Fewer held voices still differ in age.
LEMMA HoldsNoMoreAges ==
  ASSUME NEW vs, NEW ws, HoldsNoMore(ws, vs)
  PROVE  /\ AgesDiffer(vs) => AgesDiffer(ws)
         /\ Keys(ws) \subseteq Keys(vs)
BY DEF HoldsNoMore, AgesDiffer, Keys

\* One may follow another.
LEMMA HoldsNoMoreThen ==
  ASSUME NEW us, NEW vs, NEW ws, HoldsNoMore(ws, vs), HoldsNoMore(vs, us)
  PROVE  HoldsNoMore(ws, us)
BY DEF HoldsNoMore

\* The youngest key is the same where all are kept.
LEMMA YoungestKept ==
  ASSUME NEW vs, NEW ws, NEW s,
         HoldsNoMore(ws, vs), KeysKept(ws, vs), YoungestSounds(vs, s)
  PROVE  YoungestSounds(ws, s)
<1>1. CASE Keys(ws) = {}
  BY <1>1 DEF YoungestSounds
<1>2. CASE Keys(ws) = Keys(vs)
  <2>1. \A v \in Keys(ws) : v \in Held(ws)
    BY DEF Keys
  <2>. QED
    BY <1>2, <2>1 DEF HoldsNoMore, YoungestSounds
<1>. QED
  BY <1>1, <1>2 DEF KeysKept

\* A NoteOff releases its note and no other.
LEMMA NoteOffKeeps ==
  ASSUME NEW vs \in VoicesType, NEW id
  PROVE  /\ HoldsNoMore(NoteOff(vs, id), vs)
         /\ id = kAuditionNoteId => Keys(NoteOff(vs, id)) = {}
         /\ id # kAuditionNoteId => Keys(NoteOff(vs, id)) = Keys(vs)
<1>. DEFINE ws == NoteOff(vs, id)
<1>1. \A v \in VoiceIndex : vs[v] \in VoiceType
  BY DEF VoicesType
<1>2. \A x \in VoiceType : /\ [x EXCEPT !.stage = "Release"] \in VoiceType
                           /\ [x EXCEPT !.stage = "Release"].stage = "Release"
                           /\ [x EXCEPT !.stage = "Release"].note_id = x.note_id
  BY DEF VoiceType, Stage
<1>3. \A v \in VoiceIndex :
        ws[v] = IF vs[v].stage # "Idle" /\ vs[v].note_id = id
                THEN [vs[v] EXCEPT !.stage = "Release"] ELSE vs[v]
  BY DEF NoteOff, Active
<1>4. ws \in VoicesType
  <2>1. \A v \in VoiceIndex : ws[v] \in VoiceType
    BY <1>1, <1>2, <1>3
  <2>2. ws = [v \in VoiceIndex |-> ws[v]]
    BY DEF NoteOff
  <2>. HIDE DEF ws
  <2>. QED
    BY <2>1, <2>2 DEF VoicesType
<1>. HIDE DEF ws
<1>5. \A v \in Held(ws) : v \in VoiceIndex /\ ws[v] = vs[v] /\ v \in Held(vs)
                          /\ vs[v].note_id # id
  BY <1>1, <1>2, <1>3 DEF Held
<1>6. \A v \in Held(vs) : vs[v].note_id # id => v \in Held(ws) /\ ws[v] = vs[v]
  BY <1>3 DEF Held
<1>7. HoldsNoMore(ws, vs)
  BY <1>4, <1>5 DEF HoldsNoMore
<1>8. id = kAuditionNoteId => Keys(ws) = {}
  BY <1>5 DEF Keys
<1>9. id # kAuditionNoteId => Keys(ws) = Keys(vs)
  BY <1>5, <1>6 DEF Keys
<1>. QED
  BY <1>7, <1>8, <1>9 DEF ws

\* The stop path releases no key.
LEMMA StoppedKeeps ==
  ASSUME NEW vs \in VoicesType
  PROVE  HoldsNoMore(Stopped(vs), vs) /\ Keys(Stopped(vs)) = Keys(vs)
<1>. DEFINE ws == ReleaseAllBut(vs, kAuditionNoteId)
<1>1. \A v \in VoiceIndex : vs[v] \in VoiceType
  BY DEF VoicesType
<1>2. \A x \in VoiceType : /\ [x EXCEPT !.stage = "Release"] \in VoiceType
                           /\ [x EXCEPT !.stage = "Release"].stage = "Release"
  BY DEF VoiceType, Stage
<1>3. \A v \in VoiceIndex :
        ws[v] = IF v \in Held(vs) /\ vs[v].note_id # kAuditionNoteId
                THEN [vs[v] EXCEPT !.stage = "Release"] ELSE vs[v]
  BY DEF ReleaseAllBut
<1>4. ws \in VoicesType
  <2>1. \A v \in VoiceIndex : ws[v] \in VoiceType
    BY <1>1, <1>2, <1>3
  <2>2. ws = [v \in VoiceIndex |-> ws[v]]
    BY DEF ReleaseAllBut
  <2>. HIDE DEF ws
  <2>. QED
    BY <2>1, <2>2 DEF VoicesType
<1>. HIDE DEF ws
<1>5. \A v \in Held(ws) : v \in VoiceIndex /\ ws[v] = vs[v] /\ v \in Held(vs)
  BY <1>1, <1>2, <1>3 DEF Held
<1>6. \A v \in Keys(vs) : v \in Keys(ws)
  BY <1>3 DEF Held, Keys
<1>7. HoldsNoMore(ws, vs) /\ Keys(ws) = Keys(vs)
  BY <1>4, <1>5, <1>6 DEF HoldsNoMore, Keys
<1>8. HoldsNoMore(vs, vs)
  BY DEF HoldsNoMore
<1>. QED
  BY <1>7, <1>8 DEF Stopped, ws

\* Rendering a quantum keeps every held voice, and holds no other.
LEMMA RenderKeeps ==
  ASSUME NEW vs \in VoicesType
  PROVE  HoldsNoMore(RenderVoices(vs), vs) /\ Keys(RenderVoices(vs)) = Keys(vs)
<1>. DEFINE ws == RenderVoices(vs)
<1>1. \A v \in VoiceIndex : vs[v] \in VoiceType /\ ws[v] = Advance(vs[v])
  BY DEF VoicesType, RenderVoices
<1>2. Idle \in VoiceType
  BY DEF Idle, VoiceType, Stage, NoSound
<1>3. ASSUME NEW x \in VoiceType
      PROVE  /\ Advance(x) \in VoiceType
             /\ Advance(x).stage \in {"Attack", "Sustain"}
                  <=> x.stage \in {"Attack", "Sustain"}
             /\ x.stage \in {"Attack", "Sustain"} =>
                  /\ Advance(x).age = x.age
                  /\ Advance(x).note_id = x.note_id
                  /\ Advance(x).sound = x.sound
  <2>1. x.stage \in Stage /\ x.level \in Nat /\ Levels \in Nat
    BY DEF VoiceType
  <2>2. CASE x.stage = "Attack" /\ x.level + 1 < Levels
    <3>1. Advance(x) = [x EXCEPT !.level = @ + 1]
      BY <2>1, <2>2 DEF Advance
    <3>. QED
      BY <2>2, <3>1 DEF VoiceType, Stage
  <2>3. CASE x.stage = "Sustain" \/ (x.stage = "Attack" /\ x.level + 1 >= Levels)
    <3>1. Advance(x) = [x EXCEPT !.level = Levels, !.stage = "Sustain"]
      BY <2>1, <2>3 DEF Advance
    <3>. QED
      BY <2>3, <3>1 DEF VoiceType, Stage
  <2>4. CASE x.stage = "Release" /\ x.level > 1
    <3>1. Advance(x) = [x EXCEPT !.level = @ - 1]
      BY <2>1, <2>4 DEF Advance
    <3>. QED
      BY <2>4, <3>1 DEF VoiceType, Stage
  <2>5. CASE x.stage = "Idle" \/ (x.stage = "Release" /\ ~(x.level > 1))
    <3>1. Advance(x) = Idle
      BY <2>1, <2>5 DEF Advance
    <3>. QED
      BY <1>2, <2>5, <3>1 DEF Idle
  <2>. QED
    BY <2>1, <2>2, <2>3, <2>4, <2>5 DEF Stage
<1>4. ws \in VoicesType
  <2>1. \A v \in VoiceIndex : ws[v] \in VoiceType
    BY <1>1, <1>3
  <2>2. ws = [v \in VoiceIndex |-> ws[v]]
    BY DEF RenderVoices
  <2>. HIDE DEF ws
  <2>. QED
    BY <2>1, <2>2 DEF VoicesType
<1>. HIDE DEF ws
<1>5. Held(ws) = Held(vs)
  BY <1>1, <1>3 DEF Held
<1>6. \A v \in Held(vs) : /\ ws[v].age = vs[v].age
                          /\ ws[v].note_id = vs[v].note_id
                          /\ ws[v].sound = vs[v].sound
  BY <1>1, <1>3 DEF Held
<1>7. HoldsNoMore(ws, vs) /\ Keys(ws) = Keys(vs)
  BY <1>4, <1>5, <1>6 DEF HoldsNoMore, Keys
<1>. QED
  BY <1>7 DEF ws

\* The voices ws are vs but for the voice c, the youngest, which has the note.
GivenTo(c, ws, vs, id, sound) ==
  /\ c \in VoiceIndex
  /\ ws \in VoicesType
  /\ Held(ws) = Held(vs) \union {c}
  /\ ws[c].note_id = id /\ ws[c].sound = sound
  /\ \A v \in VoiceIndex : v # c => ws[v] = vs[v] /\ ws[v].age < ws[c].age

\* A NoteOn gives one voice the note, and leaves the others.
LEMMA NoteOnVoice ==
  ASSUME NEW vs \in VoicesType, NEW id \in {SongNoteId, kAuditionNoteId},
         NEW sound \in Nat \X Nat
  PROVE  GivenTo(Chosen(vs), NoteOn(vs, id, sound), vs, id, sound)
<1>. DEFINE c == Chosen(vs)
            new == [stage |-> "Attack", level |-> 0, age |-> NextAge(vs),
                    note_id |-> id, sound |-> sound]
            ws == NoteOn(vs, id, sound)
<1>1. c \in VoiceIndex
  BY ChosenVoice
<1>2. new \in VoiceType /\ new.stage = "Attack" /\ new.note_id = id /\ new.sound = sound
  BY NextAgeIsNew DEF VoiceType, Stage
<1>3. ws = [vs EXCEPT ![c] = new]
  BY DEF NoteOn
<1>4. \A v \in VoiceIndex : vs[v].age < new.age
  BY NextAgeIsNew
<1>. HIDE DEF c, new, ws
<1>5. ws \in VoicesType /\ ws[c] = new /\ \A v \in VoiceIndex : v # c => ws[v] = vs[v]
  BY <1>1, <1>2, <1>3 DEF VoicesType
<1>6. Held(ws) = Held(vs) \union {c}
  BY <1>1, <1>2, <1>5 DEF Held
<1>7. \A v \in VoiceIndex : v # c => ws[v] = vs[v] /\ ws[v].age < ws[c].age
  BY <1>4, <1>5
<1>8. ws[c].note_id = id /\ ws[c].sound = sound
  BY <1>2, <1>5
<1>. QED
  BY <1>1, <1>5, <1>6, <1>7, <1>8 DEF GivenTo, c, ws

\* A NoteOn keeps ages apart.
LEMMA NoteOnAges ==
  ASSUME NEW vs \in VoicesType, NEW id \in {SongNoteId, kAuditionNoteId},
         NEW sound \in Nat \X Nat, AgesDiffer(vs)
  PROVE  AgesDiffer(NoteOn(vs, id, sound))
<1>. DEFINE c == Chosen(vs)
            ws == NoteOn(vs, id, sound)
<1>1. /\ c \in VoiceIndex /\ ws \in VoicesType /\ Held(ws) = Held(vs) \union {c}
      /\ \A v \in VoiceIndex : v # c => ws[v] = vs[v] /\ ws[v].age < ws[c].age
  <2>1. GivenTo(c, ws, vs, id, sound)
    BY NoteOnVoice, Zenon
  <2>. HIDE DEF c, ws
  <2>. QED
    BY <2>1 DEF GivenTo
<1>2. \A v \in VoiceIndex : ws[v].age \in Nat
  BY <1>1 DEF VoicesType, VoiceType
<1>3. Held(ws) \subseteq VoiceIndex
  BY DEF Held
<1>. HIDE DEF c, ws
<1>4. ASSUME NEW u \in Held(ws), NEW v \in Held(ws), ws[u].age = ws[v].age PROVE u = v
  <2>1. CASE u = c \/ v = c
    BY <1>1, <1>2, <1>3, <1>4, <2>1
  <2>2. CASE u # c /\ v # c
    <3>1. u \in Held(vs) /\ v \in Held(vs) /\ ws[u] = vs[u] /\ ws[v] = vs[v]
      BY <1>1, <1>3, <2>2
    <3>. QED
      BY <1>4, <3>1 DEF AgesDiffer
  <2>. QED
    BY <2>1, <2>2
<1>. QED
  BY <1>4 DEF AgesDiffer, ws

\* The NoteOn of a key: it is the youngest.
LEMMA KeyIsYoungest ==
  ASSUME NEW vs \in VoicesType, NEW sound \in Nat \X Nat
  PROVE  YoungestSounds(NoteOn(vs, kAuditionNoteId, sound), sound)
<1>. DEFINE c == Chosen(vs)
            ws == NoteOn(vs, kAuditionNoteId, sound)
<1>1. /\ c \in VoiceIndex /\ ws \in VoicesType /\ Held(ws) = Held(vs) \union {c}
      /\ ws[c].note_id = kAuditionNoteId /\ ws[c].sound = sound
      /\ \A v \in VoiceIndex : v # c => ws[v] = vs[v] /\ ws[v].age < ws[c].age
  BY NoteOnVoice DEF GivenTo
<1>2. \A v \in VoiceIndex : ws[v].age \in Nat
  BY <1>1 DEF VoicesType, VoiceType
<1>3. Keys(ws) \subseteq VoiceIndex
  BY DEF Held, Keys
<1>. HIDE DEF c, ws
<1>4. c \in Keys(ws)
  BY <1>1 DEF Keys
<1>5. ASSUME NEW v \in Keys(ws), \A u \in Keys(ws) : ws[u].age <= ws[v].age
      PROVE  ws[v].sound = sound
  <2>1. ws[c].age <= ws[v].age
    BY <1>4, <1>5
  <2>2. v = c
    BY <1>1, <1>2, <1>3, <2>1
  <2>. QED
    BY <1>1, <2>2
<1>. QED
  BY <1>5 DEF YoungestSounds, ws

\* The NoteOn of the song: if it steals a key, then the oldest, which is the
\* youngest only where it is the last.
LEMMA SongStealsOldest ==
  ASSUME NEW vs \in VoicesType, NEW sound \in Nat \X Nat, NEW s,
         AgesDiffer(vs), YoungestSounds(vs, s)
  PROVE  /\ YoungestSounds(NoteOn(vs, SongNoteId, sound), s)
         /\ Keys(NoteOn(vs, SongNoteId, sound)) \subseteq Keys(vs)
<1>. DEFINE c == Chosen(vs)
            ws == NoteOn(vs, SongNoteId, sound)
<1>1. /\ c \in VoiceIndex /\ ws \in VoicesType /\ Held(ws) = Held(vs) \union {c}
      /\ ws[c].note_id = SongNoteId
      /\ \A v \in VoiceIndex : v # c => ws[v] = vs[v] /\ ws[v].age < ws[c].age
  BY NoteOnVoice DEF GivenTo
<1>2. c \in Held(vs) => \A u \in VoiceIndex : vs[c].age <= vs[u].age
  BY ChosenVoice
<1>3. \A v \in VoiceIndex : vs[v].age \in Nat
  BY DEF VoicesType, VoiceType
<1>4. SongNoteId # kAuditionNoteId
  BY DEF SongNoteId, kAuditionNoteId
<1>. HIDE DEF c, ws
<1>5. Held(vs) \subseteq VoiceIndex /\ Held(ws) \subseteq VoiceIndex
  BY DEF Held
<1>6. \A v \in Keys(ws) : v # c /\ v \in Keys(vs) /\ ws[v] = vs[v]
  BY <1>1, <1>4, <1>5 DEF Keys
<1>7. \A v \in Keys(vs) : v # c => v \in Keys(ws)
  BY <1>1, <1>5 DEF Keys
<1>8. ASSUME NEW v \in Keys(ws), \A u \in Keys(ws) : ws[u].age <= ws[v].age
      PROVE  ws[v].sound = s
  <2>1. v \in Keys(vs) /\ ws[v] = vs[v]
    BY <1>6
  <2>2. ASSUME NEW u \in Keys(vs) PROVE vs[u].age <= vs[v].age
    <3>1. CASE u = c
      <4>1. c \in Held(vs) /\ v \in VoiceIndex
        BY <1>5, <2>1, <2>2, <3>1 DEF Keys
      <4>. QED
        BY <1>2, <3>1, <4>1
    <3>2. CASE u # c
      <4>1. u \in Keys(ws) /\ ws[u] = vs[u]
        BY <1>6, <1>7, <2>2, <3>2
      <4>. QED
        BY <1>8, <2>1, <4>1
    <3>. QED
      BY <3>1, <3>2
  <2>. QED
    BY <2>1, <2>2 DEF YoungestSounds
<1>9. YoungestSounds(ws, s) /\ Keys(ws) \subseteq Keys(vs)
  BY <1>6, <1>8 DEF YoungestSounds
<1>. QED
  BY <1>9 DEF ws

-----------------------------------------------------------------------------
(* One quantum *)

\* A NoteOn of the song leaves the youngest key sounding, or no key.
LEMMA SongKeeps ==
  ASSUME NEW vs \in VoicesType, NEW song \in {"none", "on", "off"}, AgesDiffer(vs),
         NEW ws, ws = IF song = "on" THEN NoteOn(vs, SongNoteId, NoSound) ELSE vs
  PROVE  /\ ws \in VoicesType /\ AgesDiffer(ws) /\ Keys(ws) \subseteq Keys(vs)
         /\ \A s : YoungestSounds(vs, s) => YoungestSounds(ws, s)
<1>1. NoSound \in Nat \X Nat
  BY DEF NoSound
<1>2. CASE song = "on"
  <2>1. ws = NoteOn(vs, SongNoteId, NoSound)
    BY <1>2
  <2>2. ws \in VoicesType /\ AgesDiffer(ws)
    <3>1. GivenTo(Chosen(vs), ws, vs, SongNoteId, NoSound)
      BY <1>1, <2>1, NoteOnVoice
    <3>2. AgesDiffer(NoteOn(vs, SongNoteId, NoSound))
      BY <1>1, NoteOnAges
    <3>. QED
      BY <2>1, <3>1, <3>2 DEF GivenTo
  <2>3. \A s : YoungestSounds(vs, s) => YoungestSounds(ws, s)
    BY <1>1, <2>1, SongStealsOldest
  <2>4. Keys(ws) \subseteq Keys(vs)
    <3>1. PICK v : GivenTo(v, ws, vs, SongNoteId, NoSound)
      BY <1>1, <2>1, NoteOnVoice
    <3>2. SongNoteId # kAuditionNoteId
      BY DEF SongNoteId, kAuditionNoteId
    <3>3. ASSUME NEW k \in Keys(ws) PROVE k \in Keys(vs)
      <4>1. k \in Held(ws) /\ k \in VoiceIndex /\ ws[k].note_id = kAuditionNoteId
        BY <3>3 DEF Keys, Held
      <4>2. k # v
        BY <3>1, <3>2, <4>1 DEF GivenTo
      <4>. QED
        BY <3>1, <4>1, <4>2 DEF GivenTo, Keys
    <3>. QED
      BY <3>3
  <2>. QED
    BY <2>2, <2>3, <2>4
<1>3. CASE song # "on"
  BY <1>3
<1>. QED
  BY <1>2, <1>3

\* The voices a quantum renders: stopped, the events of its block applied.
AfterQuantum(song, key_first) ==
  RenderVoices(Applied(Stopped(voices), song, key_first))

\* A quantum keeps ages apart.  With a press, the press is the youngest key;
\* without one the youngest key stays or all of them go, and a release that
\* is sent leaves none.
LEMMA QuantumVoices ==
  ASSUME voices \in VoicesType, AgesDiffer(voices), pitch \in Nat, vel \in Nat,
         NEW song \in {"none", "on", "off"}, NEW key_first \in BOOLEAN
  PROVE  /\ AfterQuantum(song, key_first) \in VoicesType
         /\ AgesDiffer(AfterQuantum(song, key_first))
         /\ Triggered => YoungestSounds(AfterQuantum(song, key_first), <<pitch, vel>>)
         /\ ~Triggered =>
              /\ Keys(AfterQuantum(song, key_first)) \subseteq Keys(voices)
              /\ SendOff => Keys(AfterQuantum(song, key_first)) = {}
              /\ \A s : YoungestSounds(voices, s)
                          => YoungestSounds(AfterQuantum(song, key_first), s)
<1>. DEFINE v0 == Stopped(voices)
            v1 == IF song = "off" THEN NoteOff(v0, SongNoteId) ELSE v0
            v2 == IF SendOff THEN NoteOff(v1, kAuditionNoteId) ELSE v1
            sung(v) == IF song = "on" THEN NoteOn(v, SongNoteId, NoSound) ELSE v
            v3 == IF key_first THEN v2 ELSE sung(v2)
            v4 == IF Triggered THEN NoteOn(v3, kAuditionNoteId, <<pitch, vel>>) ELSE v3
            v5 == IF key_first THEN sung(v4) ELSE v4
            v6 == RenderVoices(v5)
<1>1. AfterQuantum(song, key_first) = v6
  BY DEF AfterQuantum, Applied
<1>2. NoSound \in Nat \X Nat /\ <<pitch, vel>> \in Nat \X Nat
  BY DEF NoSound
<1>3. HoldsNoMore(v0, voices) /\ Keys(v0) = Keys(voices) /\ v0 \in VoicesType
  BY StoppedKeeps DEF HoldsNoMore
<1>. HIDE DEF v0
<1>4. HoldsNoMore(v0, v0)
  BY <1>3 DEF HoldsNoMore
<1>5. HoldsNoMore(v1, v0) /\ Keys(v1) = Keys(v0) /\ v1 \in VoicesType
  <2>1. SongNoteId # kAuditionNoteId
    BY DEF SongNoteId, kAuditionNoteId
  <2>. QED
    BY <1>3, <1>4, <2>1, NoteOffKeeps DEF HoldsNoMore
<1>. HIDE DEF v1
<1>6. HoldsNoMore(v1, v1)
  BY <1>5 DEF HoldsNoMore
<1>7. /\ HoldsNoMore(v2, v1) /\ v2 \in VoicesType
      /\ SendOff => Keys(v2) = {}
      /\ ~SendOff => Keys(v2) = Keys(v1)
  BY <1>5, <1>6, NoteOffKeeps DEF HoldsNoMore
<1>. HIDE DEF v2
<1>8. HoldsNoMore(v2, voices) /\ KeysKept(v2, voices) /\ Keys(v2) \subseteq Keys(voices)
  BY <1>3, <1>5, <1>7, HoldsNoMoreThen DEF KeysKept
<1>9. AgesDiffer(v2) /\ \A s : YoungestSounds(voices, s) => YoungestSounds(v2, s)
  BY <1>8, HoldsNoMoreAges, YoungestKept
<1>10. /\ v3 \in VoicesType /\ AgesDiffer(v3) /\ Keys(v3) \subseteq Keys(v2)
       /\ \A s : YoungestSounds(v2, s) => YoungestSounds(v3, s)
  <2>1. CASE key_first
    BY <1>7, <1>9, <2>1
  <2>2. CASE ~key_first
    <3>1. v3 = sung(v2)
      BY <2>2
    <3>. HIDE DEF v3
    <3>. QED
      BY <1>7, <1>9, <3>1, SongKeeps
  <2>. QED
    BY <2>1, <2>2
<1>. HIDE DEF v3
<1>11. v4 \in VoicesType /\ AgesDiffer(v4)
  <2>1. CASE Triggered
    BY <1>2, <1>10, <2>1, NoteOnVoice, NoteOnAges DEF GivenTo
  <2>2. CASE ~Triggered
    BY <1>10, <2>2
  <2>. QED
    BY <2>1, <2>2
<1>12. Triggered => YoungestSounds(v4, <<pitch, vel>>)
  BY <1>2, <1>10, KeyIsYoungest
<1>13. ~Triggered => v4 = v3
  OBVIOUS
<1>. HIDE DEF v4
<1>14. /\ v5 \in VoicesType /\ AgesDiffer(v5) /\ Keys(v5) \subseteq Keys(v4)
       /\ \A s : YoungestSounds(v4, s) => YoungestSounds(v5, s)
  <2>1. CASE ~key_first
    BY <1>11, <2>1
  <2>2. CASE key_first
    <3>1. v5 = sung(v4)
      BY <2>2
    <3>. HIDE DEF v5
    <3>. QED
      BY <1>11, <3>1, SongKeeps
  <2>. QED
    BY <2>1, <2>2
<1>. HIDE DEF v5
<1>15. HoldsNoMore(v6, v5) /\ Keys(v6) = Keys(v5)
  BY <1>14, RenderKeeps
<1>. HIDE DEF v6
<1>16. /\ v6 \in VoicesType /\ AgesDiffer(v6)
       /\ \A s : YoungestSounds(v5, s) => YoungestSounds(v6, s)
  BY <1>14, <1>15, HoldsNoMoreAges, YoungestKept DEF HoldsNoMore, KeysKept
<1>17. ~Triggered => /\ Keys(v6) \subseteq Keys(voices)
                     /\ SendOff => Keys(v6) = {}
                     /\ \A s : YoungestSounds(voices, s) => YoungestSounds(v6, s)
  BY <1>7, <1>8, <1>9, <1>10, <1>13, <1>14, <1>15, <1>16
<1>. QED
  BY <1>1, <1>12, <1>14, <1>16, <1>17

-----------------------------------------------------------------------------
(* The inductive invariant *)

Songs == {"none", "on", "off"}

\* Idle voices hold nothing.
LEMMA AllIdleVoices ==
  AllIdle \in VoicesType /\ Held(AllIdle) = {} /\ Keys(AllIdle) = {}
BY DEF AllIdle, Idle, NoSound, VoicesType, VoiceType, Stage, Held, Keys

\* The engine begins silent, with no press to handle.
LEMMA InitIInv == Init => IInv
<1>1. SUFFICES ASSUME Init PROVE IInv
  OBVIOUS
<1>2. /\ Pitches \in SUBSET Nat /\ Pitches # {}
      /\ Velocities \in SUBSET Nat /\ Velocities # {}
  BY DEF Pitches, Velocities
<1>3. Min(Pitches) \in Nat /\ Min(Velocities) \in Nat
  BY <1>2, LeastNat
<1>4. TypeOK
  BY <1>1, <1>3, AllIdleVoices DEF Init, TypeOK, NoPitch, NoVelocity
<1>5. AgesDiffer(voices) /\ KnownInv /\ LatestInv
  BY <1>1, AllIdleVoices DEF Init, AgesDiffer, KnownInv, LatestInv, YoungestSounds
<1>6. CounterInv /\ ClickInv /\ PairInv
  BY <1>1 DEF Init, CounterInv, ClickInv, PairInv, Triggered
<1>. QED
  BY <1>4, <1>5, <1>6 DEF IInv

\* What a render does to the voices and to what the engine remembers.
LEMMA RenderStep ==
  ASSUME NEW song \in Songs, RtRender(song)
  PROVE  /\ \E key_first \in BOOLEAN : voices' = AfterQuantum(song, key_first)
         /\ rt = "rendering" /\ rt' = "idle"
         /\ last_audition_trigger' = aud_trig /\ last_audition_release' = aud_rel
         /\ audition_active' = ((audition_active \/ Triggered) /\ ~Released)
         /\ songs' = (IF song = "on" THEN songs + 1 ELSE songs)
         /\ snap_playing' = FALSE /\ pitch' = NoPitch /\ vel' = NoVelocity
         /\ UNCHANGED <<shared, ctlvars, aud_trig, aud_rel, clicked>>
BY DEF RtRender, RenderMarking, AfterQuantum

\* The types are kept.
LEMMA NextTypeOK == IInv /\ [Next]_vars => TypeOK'
<1>1. SUFFICES ASSUME IInv, [Next]_vars PROVE TypeOK'
  OBVIOUS
<1>2. TypeOK /\ AgesDiffer(voices)
  BY <1>1 DEF IInv
<1>3. ASSUME NEW press \in Presses, NoteOnPitch(press) PROVE TypeOK'
  BY <1>2, <1>3 DEF TypeOK, NoteOnPitch, quantum, engine
<1>4. CASE NoteOnVelocity
  BY <1>2, <1>4 DEF TypeOK, NoteOnVelocity, quantum, engine
<1>5. CASE NoteOnTrigger
  BY <1>2, <1>5 DEF TypeOK, NoteOnTrigger, quantum, engine
<1>6. CASE NoteOffRelease
  BY <1>2, <1>6 DEF TypeOK, NoteOffRelease, quantum, engine, NoPitch, NoVelocity
<1>7. ASSUME NEW p \in BOOLEAN, SetPlaying(p) PROVE TypeOK'
  BY <1>2, <1>7 DEF TypeOK, SetPlaying, ctlvars, quantum, engine
<1>8. CASE RequestReset
  BY <1>2, <1>8 DEF TypeOK, RequestReset, quantum, engine
<1>9. CASE RtBegin
  <2>1. voices' \in VoicesType
    BY <1>2, <1>9, AllIdleVoices DEF RtBegin, TypeOK
  <2>. QED
    BY <1>2, <1>9, <2>1 DEF TypeOK, RtBegin, ctlvars
<1>10. CASE RtLoadTrigger
  BY <1>2, <1>10 DEF TypeOK, RtLoadTrigger, shared, ctlvars, engine
<1>11. CASE RtLoadRelease
  BY <1>2, <1>11 DEF TypeOK, RtLoadRelease, shared, ctlvars
<1>12. CASE RtLoadPitch
  BY <1>2, <1>12 DEF TypeOK, RtLoadPitch, shared, ctlvars, engine
<1>13. CASE RtLoadVelocity
  BY <1>2, <1>13 DEF TypeOK, RtLoadVelocity, shared, ctlvars, engine
<1>14. ASSUME NEW song \in Songs, RtRender(song) PROVE TypeOK'
  <2>1. voices' \in VoicesType
    BY <1>2, <1>14, RenderStep, QuantumVoices DEF TypeOK, Songs
  <2>2. audition_active' \in BOOLEAN
    BY <1>14, RenderStep, Zenon
  <2>3. /\ songs' = (IF song = "on" THEN songs + 1 ELSE songs)
        /\ rt' = "idle" /\ snap_playing' = FALSE
        /\ pitch' = NoPitch /\ vel' = NoVelocity
        /\ last_audition_trigger' = aud_trig /\ last_audition_release' = aud_rel
        /\ UNCHANGED <<shared, ctlvars, aud_trig, aud_rel, clicked>>
    BY <1>14, RenderStep, Zenon
  <2>4. songs' \in Nat
    BY <1>2, <2>3 DEF TypeOK
  <2>. QED
    BY <1>2, <2>1, <2>2, <2>3, <2>4 DEF TypeOK, shared, ctlvars, NoPitch, NoVelocity
<1>15. CASE UNCHANGED vars
  BY <1>2, <1>15 DEF TypeOK, vars, shared, ctlvars, quantum, engine
<1>. QED
  BY <1>1, <1>3, <1>4, <1>5, <1>6, <1>7, <1>8, <1>9, <1>10, <1>11, <1>12, <1>13,
     <1>14, <1>15 DEF Next, Control, Realtime, Songs

\* RT never is ahead of the counters.
LEMMA NextCounterInv == IInv /\ [Next]_vars => CounterInv'
<1>1. SUFFICES ASSUME IInv, [Next]_vars PROVE CounterInv'
  OBVIOUS
<1>2. /\ last_audition_trigger \in Nat /\ aud_trig \in Nat /\ audition_trigger \in Nat
      /\ last_audition_trigger <= aud_trig /\ aud_trig <= audition_trigger
  BY <1>1 DEF IInv, TypeOK, CounterInv
<1>3. ASSUME Control \/ UNCHANGED vars PROVE CounterInv'
  <2>1. /\ UNCHANGED <<last_audition_trigger, aud_trig>>
        /\ audition_trigger' = audition_trigger \/ audition_trigger' = audition_trigger + 1
    BY <1>3 DEF Control, NoteOnPitch, NoteOnVelocity, NoteOnTrigger, NoteOffRelease,
       SetPlaying, RequestReset, vars, shared, quantum, engine
  <2>. QED
    BY <1>2, <2>1 DEF CounterInv
<1>4. ASSUME NEW song \in Songs, RtRender(song) PROVE CounterInv'
  <2>1. last_audition_trigger' = aud_trig /\ UNCHANGED <<shared, aud_trig>>
    BY <1>4, RenderStep, Zenon
  <2>. QED
    BY <1>2, <2>1 DEF CounterInv, shared
<1>5. CASE RtBegin \/ RtLoadTrigger \/ RtLoadRelease \/ RtLoadPitch \/ RtLoadVelocity
  <2>1. /\ UNCHANGED <<last_audition_trigger, audition_trigger>>
        /\ aud_trig' = aud_trig \/ aud_trig' = audition_trigger
    BY <1>5 DEF RtBegin, RtLoadTrigger, RtLoadRelease, RtLoadPitch, RtLoadVelocity,
       shared, engine
  <2>. QED
    BY <1>2, <2>1 DEF CounterInv
<1>. QED
  BY <1>1, <1>3, <1>4, <1>5 DEF Next, Realtime, Songs

\* A press and a release of one quantum are marked when the release is loaded.
LEMMA NextClickInv == IInv /\ [Next]_vars => ClickInv'
<1>1. SUFFICES ASSUME IInv, [Next]_vars PROVE ClickInv'
  OBVIOUS
<1>2. /\ last_audition_trigger \in Nat /\ aud_trig \in Nat /\ audition_trigger \in Nat
      /\ last_audition_trigger <= aud_trig /\ aud_trig <= audition_trigger
      /\ ClickInv
  BY <1>1 DEF IInv, TypeOK, CounterInv
<1>3. ASSUME Control \/ UNCHANGED vars PROVE ClickInv'
  <2>1. UNCHANGED <<rt, aud_trig, aud_rel, last_audition_trigger,
                    last_audition_release, clicked>>
    BY <1>3 DEF Control, NoteOnPitch, NoteOnVelocity, NoteOnTrigger, NoteOffRelease,
       SetPlaying, RequestReset, vars, quantum, engine
  <2>. QED
    BY <1>2, <2>1 DEF ClickInv, Triggered, Released
<1>4. ASSUME NEW song \in Songs, RtRender(song) PROVE ClickInv'
  <2>1. rt' = "idle"
    BY <1>4, RenderStep, Zenon
  <2>. QED
    BY <2>1 DEF ClickInv
<1>5. CASE RtBegin \/ RtLoadTrigger
  <2>1. rt' \in {"started", "trigger_loaded"}
    BY <1>5 DEF RtBegin, RtLoadTrigger
  <2>. QED
    BY <2>1 DEF ClickInv
<1>6. CASE RtLoadRelease
  <2>1. /\ UNCHANGED <<aud_trig, last_audition_trigger, last_audition_release>>
        /\ aud_rel' = audition_release
        /\ (audition_release # last_audition_release
              /\ audition_trigger # last_audition_trigger) => clicked'
    BY <1>6 DEF RtLoadRelease
  <2>2. aud_trig # last_audition_trigger => audition_trigger # last_audition_trigger
    BY <1>2
  <2>. QED
    BY <2>1, <2>2 DEF ClickInv, Triggered, Released
<1>7. CASE RtLoadPitch \/ RtLoadVelocity
  <2>1. /\ rt \in {"counters_loaded", "pitch_loaded"}
        /\ UNCHANGED <<aud_trig, aud_rel, last_audition_trigger,
                       last_audition_release, clicked>>
    BY <1>7 DEF RtLoadPitch, RtLoadVelocity, engine
  <2>. QED
    BY <1>2, <2>1 DEF ClickInv, Triggered, Released
<1>. QED
  BY <1>1, <1>3, <1>4, <1>5, <1>6, <1>7 DEF Next, Realtime, Songs

\* A key that sounds is known, unless a click hid its release.
LEMMA NextKnownInv == IInv /\ [Next]_vars => KnownInv'
<1>1. SUFFICES ASSUME IInv, [Next]_vars PROVE KnownInv'
  OBVIOUS
<1>2. KnownInv /\ ClickInv /\ audition_active \in BOOLEAN /\ clicked \in BOOLEAN
  BY <1>1 DEF IInv, TypeOK
<1>3. ASSUME \/ Control \/ RtLoadTrigger \/ RtLoadPitch \/ RtLoadVelocity
             \/ UNCHANGED vars
      PROVE  KnownInv'
  <2>1. UNCHANGED <<voices, audition_active, clicked>>
    BY <1>3 DEF Control, NoteOnPitch, NoteOnVelocity, NoteOnTrigger, NoteOffRelease,
       SetPlaying, RequestReset, RtLoadTrigger, RtLoadPitch, RtLoadVelocity, vars, engine
  <2>. QED
    BY <1>2, <2>1 DEF KnownInv, Keys, Held
<1>4. CASE RtBegin
  <2>1. /\ voices' = voices \/ voices' = AllIdle
        /\ UNCHANGED <<audition_active, clicked>>
    BY <1>4 DEF RtBegin
  <2>2. CASE voices' = voices
    BY <1>2, <2>1, <2>2 DEF KnownInv, Keys, Held
  <2>3. CASE voices' = AllIdle
    BY <2>3, AllIdleVoices DEF KnownInv, Keys, Held
  <2>. QED
    BY <2>1, <2>2, <2>3
<1>5. CASE RtLoadRelease
  <2>1. /\ UNCHANGED <<voices, audition_active>>
        /\ clicked' \/ ~clicked \/ audition_active
    BY <1>2, <1>5 DEF RtLoadRelease
  <2>. QED
    BY <1>2, <2>1 DEF KnownInv, Keys, Held
<1>6. ASSUME NEW song \in Songs, RtRender(song) PROVE KnownInv'
  <2>0. PICK key_first \in BOOLEAN : voices' = AfterQuantum(song, key_first)
    BY <1>6, RenderStep, Zenon
  <2>. DEFINE ws == AfterQuantum(song, key_first)
  <2>1. /\ voices' = ws /\ rt = "rendering" /\ clicked' = clicked
        /\ audition_active' = ((audition_active \/ Triggered) /\ ~Released)
    BY <1>6, <2>0, RenderStep, Zenon
  <2>2. ~Triggered => /\ Keys(ws) \subseteq Keys(voices)
                      /\ SendOff => Keys(ws) = {}
    BY <1>1, QuantumVoices DEF IInv, TypeOK, Songs
  <2>3. SUFFICES ASSUME ~clicked, Keys(ws) # {} PROVE audition_active'
    <3>. HIDE DEF ws
    <3>. QED
      BY <2>1 DEF KnownInv, Keys, Held
  <2>. HIDE DEF ws
  <2>4. CASE Triggered
    <3>1. ~Released
      BY <1>2, <2>1, <2>3, <2>4 DEF ClickInv
    <3>. QED
      BY <2>1, <2>4, <3>1
  <2>5. CASE ~Triggered
    <3>1. Keys(voices) # {} /\ ~SendOff
      BY <2>2, <2>3, <2>5
    <3>2. audition_active
      BY <1>2, <2>3, <3>1 DEF KnownInv
    <3>3. ~Released
      BY <3>1, <3>2 DEF SendOff
    <3>. QED
      BY <2>1, <3>2, <3>3
  <2>. QED
    BY <2>4, <2>5
<1>. QED
  BY <1>1, <1>3, <1>4, <1>5, <1>6 DEF Next, Realtime, Songs

\* No two held voices come to be of one age.
LEMMA NextAgesDiffer == IInv /\ [Next]_vars => AgesDiffer(voices)'
<1>1. SUFFICES ASSUME IInv, [Next]_vars PROVE AgesDiffer(voices')
  BY DEF AgesDiffer, Held
<1>2. AgesDiffer(voices)
  BY <1>1 DEF IInv
<1>3. ASSUME NEW song \in Songs, RtRender(song) PROVE AgesDiffer(voices')
  <2>1. PICK key_first \in BOOLEAN : voices' = AfterQuantum(song, key_first)
    BY <1>3, RenderStep, Zenon
  <2>. QED
    BY <1>1, <2>1, QuantumVoices DEF IInv, TypeOK, Songs
<1>4. CASE RtBegin
  <2>1. voices' = voices \/ voices' = AllIdle
    BY <1>4 DEF RtBegin
  <2>. QED
    BY <1>2, <2>1, AllIdleVoices DEF AgesDiffer
<1>5. ASSUME \/ Control \/ RtLoadTrigger \/ RtLoadRelease \/ RtLoadPitch
             \/ RtLoadVelocity \/ UNCHANGED vars
      PROVE  AgesDiffer(voices')
  <2>1. voices' = voices
    BY <1>5 DEF Control, NoteOnPitch, NoteOnVelocity, NoteOnTrigger, NoteOffRelease,
       SetPlaying, RequestReset, RtLoadTrigger, RtLoadRelease, RtLoadPitch,
       RtLoadVelocity, vars, engine
  <2>. QED
    BY <1>2, <2>1
<1>. QED
  BY <1>1, <1>3, <1>4, <1>5 DEF Next, Realtime, Songs

\* What RT loads after the trigger is of its call, while no younger one begins.
LEMMA NextPairInv == IInv /\ [Next]_vars => PairInv'
<1>1. SUFFICES ASSUME IInv, [Next]_vars PROVE PairInv'
  OBVIOUS
<1>2. /\ last_audition_trigger \in Nat /\ aud_trig \in Nat /\ audition_trigger \in Nat
      /\ last_audition_trigger <= aud_trig /\ aud_trig <= audition_trigger
      /\ PairInv
  BY <1>1 DEF IInv, TypeOK, CounterInv
<1>3. CASE (\E press \in Presses : NoteOnPitch(press)) \/ NoteOnVelocity
  <2>1. ctl' # "idle"
    BY <1>3 DEF NoteOnPitch, NoteOnVelocity
  <2>. QED
    BY <2>1 DEF PairInv
<1>4. CASE NoteOnTrigger
  <2>1. audition_trigger' = audition_trigger + 1 /\ aud_trig' = aud_trig
    BY <1>4 DEF NoteOnTrigger, quantum
  <2>2. audition_trigger' # aud_trig'
    BY <1>2, <2>1
  <2>. QED
    BY <2>2 DEF PairInv
<1>5. ASSUME \/ NoteOffRelease \/ (\E p \in BOOLEAN : SetPlaying(p)) \/ RequestReset
             \/ UNCHANGED vars
      PROVE  PairInv'
  <2>1. UNCHANGED <<rt, ctl, aud_trig, last_audition_trigger, audition_trigger,
                    pitch, vel, audition_pitch, audition_velocity>>
    BY <1>5 DEF NoteOffRelease, SetPlaying, RequestReset, vars, shared, ctlvars,
       quantum, engine
  <2>. QED
    BY <1>2, <2>1 DEF PairInv, Triggered
<1>6. CASE RtBegin \/ RtLoadTrigger
  <2>1. rt' \in {"started", "trigger_loaded"}
    BY <1>6 DEF RtBegin, RtLoadTrigger
  <2>. QED
    BY <2>1 DEF PairInv
<1>7. CASE RtLoadRelease
  <2>1. /\ rt' = IF Triggered THEN "counters_loaded" ELSE "rendering"
        /\ Triggered' = Triggered
    BY <1>7 DEF RtLoadRelease, Triggered
  <2>. QED
    BY <2>1 DEF PairInv
<1>8. CASE RtLoadPitch
  <2>1. rt' = "pitch_loaded" /\ pitch' = audition_pitch /\ audition_pitch' = audition_pitch
    BY <1>8 DEF RtLoadPitch, shared
  <2>. QED
    BY <2>1 DEF PairInv
<1>9. CASE RtLoadVelocity
  <2>1. /\ rt = "pitch_loaded" /\ vel' = audition_velocity
        /\ UNCHANGED <<ctl, aud_trig, last_audition_trigger, audition_trigger,
                       pitch, audition_pitch, audition_velocity>>
    BY <1>9 DEF RtLoadVelocity, shared, ctlvars, engine
  <2>. QED
    BY <1>2, <2>1 DEF PairInv, Triggered
<1>10. ASSUME NEW song \in Songs, RtRender(song) PROVE PairInv'
  <2>1. last_audition_trigger' = aud_trig /\ aud_trig' = aud_trig
    BY <1>10, RenderStep, Zenon
  <2>. QED
    BY <2>1 DEF PairInv, Triggered
<1>. QED
  BY <1>1, <1>3, <1>4, <1>5, <1>6, <1>7, <1>8, <1>9, <1>10
     DEF Next, Control, Realtime, Songs

\* The youngest key is the one of the last call that RT has taken.
LEMMA NextLatestInv == IInv /\ [Next]_vars => LatestInv'
<1>. DEFINE sound == <<audition_pitch, audition_velocity>>
<1>1. SUFFICES ASSUME IInv, [Next]_vars,
                      ctl' = "idle", audition_trigger' = last_audition_trigger'
               PROVE  YoungestSounds(voices', sound')
  BY DEF LatestInv, YoungestSounds, Keys, Held
<1>2. /\ last_audition_trigger \in Nat /\ aud_trig \in Nat /\ audition_trigger \in Nat
      /\ last_audition_trigger <= aud_trig /\ aud_trig <= audition_trigger
      /\ LatestInv
  BY <1>1 DEF IInv, TypeOK, CounterInv
<1>3. CASE (\E press \in Presses : NoteOnPitch(press)) \/ NoteOnVelocity
  BY <1>1, <1>3 DEF NoteOnPitch, NoteOnVelocity
<1>4. CASE NoteOnTrigger
  <2>1. /\ audition_trigger' = audition_trigger + 1
        /\ last_audition_trigger' = last_audition_trigger
    BY <1>4 DEF NoteOnTrigger, engine
  <2>2. audition_trigger' # last_audition_trigger'
    BY <1>2, <2>1
  <2>. QED
    BY <1>1, <2>2, Zenon
<1>5. ASSUME \/ NoteOffRelease \/ (\E p \in BOOLEAN : SetPlaying(p)) \/ RequestReset
             \/ RtBegin \/ RtLoadTrigger \/ RtLoadRelease \/ RtLoadPitch
             \/ RtLoadVelocity \/ UNCHANGED vars
      PROVE  YoungestSounds(voices', sound')
  <2>1. /\ UNCHANGED <<ctl, last_audition_trigger, audition_trigger,
                       audition_pitch, audition_velocity>>
        /\ voices' = voices \/ voices' = AllIdle
    BY <1>5 DEF NoteOffRelease, SetPlaying, RequestReset, RtBegin, RtLoadTrigger,
       RtLoadRelease, RtLoadPitch, RtLoadVelocity, vars, shared, ctlvars, engine
  <2>2. YoungestSounds(voices, sound) /\ sound' = sound
    BY <1>1, <1>2, <2>1 DEF LatestInv
  <2>3. YoungestSounds(AllIdle, sound)
    BY AllIdleVoices DEF YoungestSounds
  <2>. QED
    BY <2>1, <2>2, <2>3
<1>6. ASSUME NEW song \in Songs, RtRender(song)
      PROVE  YoungestSounds(voices', sound')
  <2>0. PICK key_first \in BOOLEAN : voices' = AfterQuantum(song, key_first)
    BY <1>6, RenderStep, Zenon
  <2>1. /\ voices' = AfterQuantum(song, key_first) /\ last_audition_trigger' = aud_trig
        /\ rt = "rendering" /\ UNCHANGED <<shared, ctlvars>>
    BY <1>6, <2>0, RenderStep, Zenon
  <2>2. /\ sound' = sound /\ ctl = "idle" /\ audition_trigger = aud_trig
    BY <1>1, <2>1 DEF shared, ctlvars
  <2>3. /\ Triggered => YoungestSounds(AfterQuantum(song, key_first), <<pitch, vel>>)
        /\ ~Triggered => \A s : YoungestSounds(voices, s)
                                   => YoungestSounds(AfterQuantum(song, key_first), s)
    BY <1>1, QuantumVoices DEF IInv, TypeOK, Songs
  <2>4. CASE Triggered
    <3>1. pitch = audition_pitch /\ vel = audition_velocity
      BY <1>1, <2>1, <2>2, <2>4 DEF IInv, PairInv
    <3>2. sound' = <<pitch, vel>>
      BY <2>2, <3>1
    <3>3. YoungestSounds(voices', <<pitch, vel>>)
      BY <2>1, <2>3, <2>4, Zenon
    <3>. HIDE DEF sound
    <3>. QED
      BY <3>2, <3>3, Zenon
  <2>5. CASE ~Triggered
    <3>1. YoungestSounds(voices, sound)
      BY <1>2, <2>2, <2>5 DEF LatestInv, Triggered
    <3>. QED
      BY <2>1, <2>2, <2>3, <2>5, <3>1
  <2>. QED
    BY <2>4, <2>5
<1>. QED
  BY <1>1, <1>3, <1>4, <1>5, <1>6 DEF Next, Control, Realtime, Songs

-----------------------------------------------------------------------------
(* Theorems *)

\* The invariant holds in every state.
THEOREM Invariance == Spec => []IInv
<1>1. IInv /\ [Next]_vars => IInv'
  BY NextTypeOK, NextCounterInv, NextClickInv, NextKnownInv, NextAgesDiffer,
     NextPairInv, NextLatestInv DEF IInv
<1>. QED
  BY InitIInv, <1>1, PTL DEF Spec

\* Between quanta a key that sounds is one the engine knows it has to release,
\* for any number of voices, of songs that steal them and of plans that replace
\* them, unless a click hid the release (audition_active_ of process()).
THEOREM KeysAreKnown == Spec => []HeldAuditionIsKnown
<1>1. IInv => HeldAuditionIsKnown
  BY DEF IInv, KnownInv, HeldAuditionIsKnown, Auditioned, Keys
<1>. QED
  BY Invariance, <1>1, PTL

\* Once the last call is taken, the youngest voice of the audition has its pitch
\* and its velocity: no order of the two threads leaves half a call sounding.
THEOREM LastCallIsHeard == Spec => []LatestCallSounds
<1>1. IInv => LatestCallSounds
  BY DEF IInv, LatestInv, YoungestSounds, LatestCallSounds, Auditioned, Keys
<1>. QED
  BY Invariance, <1>1, PTL
=============================================================================
