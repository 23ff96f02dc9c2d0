--------------------------- MODULE EndpointProofs ---------------------------
(***************************************************************************)
(* That every sink is linked (EverySinkLinked) unless its link could not   *)
(* be made, for any set of sinks, any port ids and any number of times     *)
(* they come and go.                                                       *)
(***************************************************************************)
EXTENDS Endpoint, FiniteSetTheorems, WellFoundedInduction, TLAPS

PortType == [id : Nat, node : Nodes \cup {OurNode}, dir : {"in", "out"},
             channel : Channels]
EventType == [kind : {"port"}, port : PortType] \cup {OtherEvent}

EndpointType ==
  /\ queue \in Seq(EventType)
  /\ candidates \in Seq(PortType)
  /\ DOMAIN sinks \subseteq Nodes /\ IsFiniteSet(DOMAIN sinks)
  /\ sinks \in [DOMAIN sinks -> SinkPorts]

\* The registry is not listened to before the endpoint is started.
StageInv == main = "begin" => thread = "none"

\* No two sinks have a port in common.
SinksApart ==
  \A m, n \in DOMAIN sinks :
    m # n => Range(sinks[m]) \cap Range(sinks[n]) = {}

\* An event that announces a port of this node, direction and channel.
Concerns(event, node, dir, c) ==
  /\ event.kind = "port"
  /\ event.port = Port(event.port.id, node, dir, c)

\* The listener knows the port under this id, or is about to: no other one
\* for the same place is announced after it.
Reported(node, dir, c, id) ==
  \/ \E j \in DOMAIN queue :
       /\ queue[j] = PortEvent(Port(id, node, dir, c))
       /\ \A k \in DOMAIN queue : k > j => ~Concerns(queue[k], node, dir, c)
  \/ /\ \A k \in DOMAIN queue : ~Concerns(queue[k], node, dir, c)
     /\ LastId(candidates, node, dir, c) = id

\* While the listener is there, this holds of the program's own ports and of
\* those of every sink.
ReportInv ==
  thread \in {"run", "loop"} =>
    \A c \in Channels :
      /\ Reported(OurNode, "out", c, OurPorts[c])
      /\ \A n \in DOMAIN sinks : Reported(n, "in", c, sinks[n][c])

\* What is wanted counts as linked; what counts as linked was announced; and
\* it is linked, or could not be, if its port is there and is the one that was
\* announced.
LinkInv ==
  /\ Wanted(candidates) \subseteq linked_pairs
  /\ \A pair \in linked_pairs :
       \E i \in DOMAIN candidates : candidates[i].id = pair[2]
  /\ \A pair \in linked_pairs :
       pair[2] \in Plugged \ reused => pair \in links \cup failed

IInv == EndpointType /\ StageInv /\ SinksApart /\ ReportInv /\ LinkInv

USE EndpointAssumption

-----------------------------------------------------------------------------
(* What try_link finds among the ports announced.                          *)

\* A set of naturals that is not empty has a least member.
LEMMA LeastNat == ASSUME NEW T \in SUBSET Nat, T # {}
                  PROVE  \E x \in T : \A y \in T : x <= y
<1>. DEFINE R == OpToRel(<, Nat)
<1>1. \A x, y \in Nat : x < y => <<x, y>> \in R
  BY Zenon DEF OpToRel
<1>2. IsWellFoundedOn(R, Nat)
  BY NatLessThanWellFounded
<1>3. IsWellFoundedOn(R, T)
  BY <1>2, IsWellFoundedOnSubset
<1>4. PICK x \in T : \A y \in T : <<y, x>> \notin R
  BY <1>3, WFMin, Zenon
<1>5. \A y \in T : ~(y < x)
  BY <1>1, <1>4
<1>. QED
  BY <1>5

\* Positions of a sequence have a last one.
LEMMA LastPosition ==
  ASSUME NEW n \in Nat, NEW S \in SUBSET (1 .. n), S # {}
  PROVE  Max(S) \in S /\ \A y \in S : y <= Max(S)
<1>. DEFINE Bounds == {u \in Nat : \A b \in S : b <= u}
<1>1. Bounds \in SUBSET Nat /\ n \in Bounds
  OBVIOUS
<1>2. PICK u \in Bounds : \A y \in Bounds : u <= y
  <2>. HIDE DEF Bounds
  <2>. QED
    BY <1>1, LeastNat
<1>3. u \in Nat /\ \A b \in S : b <= u
  BY <1>2
<1>4. u \in S
  <2>1. SUFFICES ASSUME u \notin S PROVE FALSE
    OBVIOUS
  <2>2. \A b \in S : b \in Nat /\ b < u
    BY <1>3, <2>1
  <2>3. u - 1 \in Nat
    <3>1. PICK w \in S : TRUE
      OBVIOUS
    <3>. QED
      BY <1>3, <2>2, <3>1
  <2>4. u - 1 \in Bounds
    BY <1>3, <2>2, <2>3
  <2>. QED
    BY <1>2, <1>3, <2>4
<1>5. \E x \in S : \A y \in S : x >= y
  BY <1>3, <1>4
<1>6. Max(S) \in S /\ \A y \in S : Max(S) >= y
  BY <1>5 DEF Max
<1>. QED
  BY <1>6

\* A port that fits and has none that fits behind it is the one found.
LEMMA LastIdIs ==
  ASSUME NEW ports \in Seq(PortType), NEW node, NEW dir, NEW c,
         NEW i \in Fitting(ports, node, dir, c),
         \A k \in Fitting(ports, node, dir, c) : k <= i
  PROVE  LastId(ports, node, dir, c) = ports[i].id
<1>. DEFINE F == Fitting(ports, node, dir, c)
<1>1. F \in SUBSET (1 .. Len(ports)) /\ Len(ports) \in Nat /\ F # {} /\ i \in F
  BY DEF Fitting
<1>2. Max(F) \in F /\ \A y \in F : y <= Max(F)
  <2>. HIDE DEF F
  <2>. QED
    BY <1>1, LastPosition
<1>3. Max(F) = i
  BY <1>1, <1>2
<1>. QED
  BY <1>1, <1>3 DEF LastId

\* What is found is the id of a port that was announced, or there is none.
LEMMA LastIdAnnounced ==
  ASSUME NEW ports \in Seq(PortType), NEW node, NEW dir, NEW c
  PROVE  \/ /\ Fitting(ports, node, dir, c) = {}
            /\ LastId(ports, node, dir, c) = 0
         \/ \E i \in Fitting(ports, node, dir, c) :
              /\ \A k \in Fitting(ports, node, dir, c) : k <= i
              /\ LastId(ports, node, dir, c) = ports[i].id
<1>. DEFINE F == Fitting(ports, node, dir, c)
<1>1. CASE F = {}
  BY <1>1 DEF LastId
<1>2. CASE F # {}
  <2>1. F \in SUBSET (1 .. Len(ports)) /\ Len(ports) \in Nat
    BY DEF Fitting
  <2>2. Max(F) \in F /\ \A y \in F : y <= Max(F)
    <3>. HIDE DEF F
    <3>. QED
      BY <1>2, <2>1, LastPosition
  <2>. QED
    BY <1>2, <2>2 DEF LastId
<1>. QED
  BY <1>1, <1>2

\* One more port announced is the one found if it fits, and else changes
\* nothing.
LEMMA LastIdAppend ==
  ASSUME NEW ports \in Seq(PortType), NEW p \in PortType,
         NEW node, NEW dir, NEW c
  PROVE  LastId(Append(ports, p), node, dir, c)
           = IF p = Port(p.id, node, dir, c) THEN p.id
             ELSE LastId(ports, node, dir, c)
<1>. DEFINE longer == Append(ports, p)
            n == Len(ports)
            F == Fitting(ports, node, dir, c)
            G == Fitting(longer, node, dir, c)
<1>1. /\ longer \in Seq(PortType) /\ n \in Nat
      /\ DOMAIN ports = 1 .. n /\ DOMAIN longer = 1 .. n + 1
      /\ longer[n + 1] = p /\ \A i \in 1 .. n : longer[i] = ports[i]
  OBVIOUS
<1>2. CASE p = Port(p.id, node, dir, c)
  <2>1. n + 1 \in G /\ \A k \in G : k <= n + 1
    BY <1>1, <1>2 DEF Fitting
  <2>2. LastId(longer, node, dir, c) = longer[n + 1].id
    <3>. DEFINE i == n + 1
    <3>. HIDE DEF longer, i
    <3>1. LastId(longer, node, dir, c) = longer[i].id
      BY <1>1, <2>1, LastIdIs DEF i
    <3>. QED
      BY <3>1 DEF i
  <2>. QED
    BY <1>1, <1>2, <2>2
<1>3. CASE p # Port(p.id, node, dir, c)
  <2>1. G = F
    BY <1>1, <1>3 DEF Fitting
  <2>2. CASE F = {}
    BY <1>3, <2>1, <2>2 DEF LastId
  <2>3. CASE F # {}
    <3>1. PICK i \in F : /\ \A k \in F : k <= i
                         /\ LastId(ports, node, dir, c) = ports[i].id
      BY <2>3, LastIdAnnounced
    <3>2. i \in G /\ \A k \in G : k <= i
      BY <2>1, <3>1
    <3>3. LastId(longer, node, dir, c) = longer[i].id
      <4>. HIDE DEF longer
      <4>. QED
        BY <1>1, <3>2, LastIdIs
    <3>4. longer[i] = ports[i]
      BY <1>1, <3>1 DEF Fitting
    <3>. QED
      BY <1>3, <3>1, <3>3, <3>4
  <2>. QED
    BY <2>2, <2>3
<1>. QED
  BY <1>2, <1>3

\* A pair is wanted for a port that was announced.
LEMMA WantedAnnounced ==
  ASSUME NEW ports \in Seq(PortType), NEW pair \in Wanted(ports)
  PROVE  \E i \in DOMAIN ports : ports[i].id = pair[2]
<1>1. PICK n \in Nodes, c \in Channels :
        /\ LastId(ports, n, "in", c) # 0
        /\ pair = <<LastId(ports, OurNode, "out", c), LastId(ports, n, "in", c)>>
  BY DEF Wanted
<1>2. \E i \in Fitting(ports, n, "in", c) : LastId(ports, n, "in", c) = ports[i].id
  BY <1>1, LastIdAnnounced
<1>. QED
  BY <1>1, <1>2 DEF Fitting

-----------------------------------------------------------------------------
(* Links.                                                                  *)

\* What is wanted is linked, or counted as linked, once it was tried.
LEMMA LinkedWhenTried ==
  ASSUME LinkInv, NEW ports \in Seq(PortType), candidates' = ports,
         \A i \in DOMAIN candidates : i \in DOMAIN ports /\ ports[i] = candidates[i],
         TryLink(ports), UNCHANGED <<sinks, reused>>
  PROVE  LinkInv'
<1>1. linked_pairs' = linked_pairs \cup Wanted(ports)
  BY DEF TryLink
<1>2. PICK lost \in SUBSET (Wanted(ports) \ linked_pairs) :
        /\ failed' = failed \cup lost
        /\ links' = links \cup {pair \in (Wanted(ports) \ linked_pairs) \ lost :
                                  pair[2] \in Plugged}
  BY DEF TryLink
<1>3. (Wanted(candidates) \subseteq linked_pairs)'
  BY <1>1 DEF Wanted
<1>4. ASSUME NEW pair \in linked_pairs'
      PROVE  \E i \in DOMAIN ports : ports[i].id = pair[2]
  <2>1. CASE pair \in linked_pairs
    BY <2>1 DEF LinkInv
  <2>2. CASE pair \in Wanted(ports)
    BY <2>2, WantedAnnounced
  <2>. QED
    BY <1>1, <2>1, <2>2
<1>5. Plugged' = Plugged /\ reused' = reused
  BY DEF Plugged
<1>6. ASSUME NEW pair \in linked_pairs', pair[2] \in Plugged \ reused
      PROVE  pair \in links' \cup failed'
  BY <1>1, <1>2, <1>6 DEF LinkInv
<1>. QED
  BY <1>3, <1>4, <1>5, <1>6 DEF LinkInv

-----------------------------------------------------------------------------
(* What is reported of a place.                                            *)

\* The listener's handling of an event changes nothing in what is reported.
LEMMA ReportedAfterDispatch ==
  ASSUME EndpointType, NEW node, NEW dir, NEW c, NEW id,
         Reported(node, dir, c, id),
         queue # << >>, Handled(Head(queue)), queue' = Tail(queue)
  PROVE  Reported(node, dir, c, id)'
<1>. DEFINE n == Len(queue)
            e == Head(queue)
<1>1. /\ queue \in Seq(EventType) /\ candidates \in Seq(PortType)
      /\ n \in Nat \ {0} /\ DOMAIN queue = 1 .. n /\ e = queue[1] /\ e \in EventType
      /\ DOMAIN (queue') = 1 .. n - 1
      /\ \A k \in 1 .. n - 1 : queue'[k] = queue[k + 1]
  BY DEF EndpointType
<1>2. /\ e.kind = "port" => e.port \in PortType /\ candidates' = Append(candidates, e.port)
      /\ e.kind # "port" => candidates' = candidates
  BY <1>1 DEF Handled, EventType, OtherEvent
<1>3. Concerns(e, node, dir, c) => LastId(candidates', node, dir, c) = e.port.id
  <2>1. ASSUME Concerns(e, node, dir, c)
        PROVE  LastId(candidates', node, dir, c) = e.port.id
    <3>1. e.port \in PortType /\ candidates' = Append(candidates, e.port)
      BY <1>2, <2>1 DEF Concerns
    <3>2. e.port = Port(e.port.id, node, dir, c)
      BY <2>1 DEF Concerns
    <3>. HIDE DEF e
    <3>. QED
      BY <1>1, <3>1, <3>2, LastIdAppend
  <2>. QED
    BY <2>1
<1>4. ~Concerns(e, node, dir, c)
        => LastId(candidates', node, dir, c) = LastId(candidates, node, dir, c)
  <2>1. ASSUME ~Concerns(e, node, dir, c)
        PROVE  LastId(candidates', node, dir, c) = LastId(candidates, node, dir, c)
    <3>1. CASE e.kind = "port"
      <4>1. e.port \in PortType /\ candidates' = Append(candidates, e.port)
        BY <1>2, <3>1
      <4>2. e.port # Port(e.port.id, node, dir, c)
        BY <2>1, <3>1 DEF Concerns
      <4>. HIDE DEF e
      <4>. QED
        BY <1>1, <4>1, <4>2, LastIdAppend
    <3>2. CASE e.kind # "port"
      BY <1>2, <3>2
    <3>. QED
      BY <3>1, <3>2
  <2>. QED
    BY <2>1
<1>. HIDE DEF n, e
<1>5. CASE \A k \in DOMAIN queue : ~Concerns(queue[k], node, dir, c)
  <2>1. LastId(candidates, node, dir, c) = id
    <3>1. CASE \E j \in DOMAIN queue : queue[j] = PortEvent(Port(id, node, dir, c))
      BY <1>5, <3>1 DEF Concerns, PortEvent, Port
    <3>. QED
      BY <3>1 DEF Reported
  <2>2. ~Concerns(e, node, dir, c)
    BY <1>1, <1>5
  <2>3. \A k \in DOMAIN (queue') : ~Concerns(queue'[k], node, dir, c)
    BY <1>1, <1>5
  <2>. QED
    BY <1>4, <2>1, <2>2, <2>3 DEF Reported, LastId, Fitting
<1>6. CASE \E k \in DOMAIN queue : Concerns(queue[k], node, dir, c)
  <2>1. PICK j \in DOMAIN queue :
          /\ queue[j] = PortEvent(Port(id, node, dir, c))
          /\ \A k \in DOMAIN queue : k > j => ~Concerns(queue[k], node, dir, c)
    BY <1>6 DEF Reported
  <2>2. j \in 1 .. n
    BY <1>1
  <2>3. CASE j = 1
    <3>1. Concerns(e, node, dir, c) /\ e.port.id = id
      BY <1>1, <2>1, <2>3 DEF Concerns, PortEvent, Port
    <3>2. \A k \in DOMAIN (queue') : ~Concerns(queue'[k], node, dir, c)
      BY <1>1, <2>1, <2>3
    <3>. QED
      BY <1>3, <3>1, <3>2 DEF Reported, LastId, Fitting
  <2>4. CASE j # 1
    <3>1. j - 1 \in DOMAIN (queue') /\ queue'[j - 1] = PortEvent(Port(id, node, dir, c))
      BY <1>1, <2>1, <2>2, <2>4
    <3>2. \A k \in DOMAIN (queue') : k > j - 1 => ~Concerns(queue'[k], node, dir, c)
      BY <1>1, <2>1, <2>2
    <3>. QED
      BY <3>1, <3>2 DEF Reported
  <2>. QED
    BY <2>3, <2>4
<1>. QED
  BY <1>5, <1>6

\* A sink that is plugged in announces its two ports, and nothing else.
LEMMA SinkEventsReport ==
  ASSUME NEW m \in Nodes, NEW ports \in SinkPorts, NEW events \in SinkEvents(m, ports)
  PROVE  /\ events \in Seq(EventType) /\ Len(events) = 3
         /\ \A c \in Channels : \E j \in 1 .. 3 :
              /\ events[j] = PortEvent(Port(ports[c], m, "in", c))
              /\ \A k \in 1 .. 3 : k > j => ~Concerns(events[k], m, "in", c)
         /\ \A node, dir, c : node # m =>
              \A k \in 1 .. 3 : ~Concerns(events[k], node, dir, c)
<1>. DEFINE l == PortEvent(Port(ports["FL"], m, "in", "FL"))
            r == PortEvent(Port(ports["FR"], m, "in", "FR"))
<1>1. events = <<OtherEvent, l, r>> \/ events = <<OtherEvent, r, l>>
  BY DEF SinkEvents
<1>2. OtherEvent \in EventType /\ l \in EventType /\ r \in EventType
  <2>1. Port(ports["FL"], m, "in", "FL") \in PortType
    BY DEF Port, PortType, Channels
  <2>2. Port(ports["FR"], m, "in", "FR") \in PortType
    BY DEF Port, PortType, Channels
  <2>. QED
    BY <2>1, <2>2 DEF PortEvent, EventType
<1>3. /\ ~Concerns(l, m, "in", "FR") /\ ~Concerns(r, m, "in", "FL")
      /\ \A node, dir, c : /\ ~Concerns(OtherEvent, node, dir, c)
                           /\ node # m => ~Concerns(l, node, dir, c)
                           /\ node # m => ~Concerns(r, node, dir, c)
  BY DEF Concerns, PortEvent, Port, OtherEvent
<1>. HIDE DEF l, r
<1>4. events \in Seq(EventType) /\ Len(events) = 3
  <2>1. \A x, y, z \in EventType :
          <<x, y, z>> \in Seq(EventType) /\ Len(<<x, y, z>>) = 3
    OBVIOUS
  <2>2. /\ <<OtherEvent, l, r>> \in Seq(EventType) /\ Len(<<OtherEvent, l, r>>) = 3
        /\ <<OtherEvent, r, l>> \in Seq(EventType) /\ Len(<<OtherEvent, r, l>>) = 3
    BY <1>2, <2>1, Zenon
  <2>. QED
    BY <1>1, <2>2, Zenon
<1>5. /\ \E j \in 1 .. 3 : events[j] = l /\ \A k \in 1 .. 3 : k > j => ~Concerns(events[k], m, "in", "FL")
      /\ \E j \in 1 .. 3 : events[j] = r /\ \A k \in 1 .. 3 : k > j => ~Concerns(events[k], m, "in", "FR")
  BY <1>1, <1>3
<1>6. ASSUME NEW node, NEW dir, NEW c, node # m, NEW k \in 1 .. 3
      PROVE  ~Concerns(events[k], node, dir, c)
  BY <1>1, <1>3, <1>6
<1>. QED
  BY <1>4, <1>5, <1>6 DEF Channels, l, r

\* New events at the end of the queue that do not concern a place change
\* nothing in what is reported of it.
LEMMA ReportedAfterPlug ==
  ASSUME EndpointType, NEW events \in Seq(EventType), NEW node, NEW dir, NEW c, NEW id,
         Reported(node, dir, c, id),
         \A k \in DOMAIN events : ~Concerns(events[k], node, dir, c),
         queue' = queue \o events, UNCHANGED candidates
  PROVE  Reported(node, dir, c, id)'
<1>. DEFINE n == Len(queue)
            l == Len(events)
<1>1. /\ n \in Nat /\ l \in Nat /\ DOMAIN queue = 1 .. n /\ DOMAIN events = 1 .. l
      /\ DOMAIN (queue') = 1 .. n + l
      /\ \A k \in 1 .. n : queue'[k] = queue[k]
      /\ \A k \in n + 1 .. n + l : k - n \in 1 .. l /\ queue'[k] = events[k - n]
  BY DEF EndpointType
<1>. HIDE DEF n, l
<1>2. \A k \in DOMAIN (queue') : k \notin DOMAIN queue => ~Concerns(queue'[k], node, dir, c)
  <2>1. TAKE k \in DOMAIN (queue')
  <2>2. HAVE k \notin DOMAIN queue
  <2>3. k \in n + 1 .. n + l
    BY <1>1, <2>2
  <2>. QED
    BY <1>1, <2>3
<1>3. \A k \in DOMAIN queue : k \in DOMAIN (queue') /\ queue'[k] = queue[k]
  BY <1>1
<1>4. LastId(candidates', node, dir, c) = LastId(candidates, node, dir, c)
  OBVIOUS
<1>5. CASE \E j \in DOMAIN queue :
             /\ queue[j] = PortEvent(Port(id, node, dir, c))
             /\ \A k \in DOMAIN queue : k > j => ~Concerns(queue[k], node, dir, c)
  BY <1>2, <1>3, <1>5 DEF Reported
<1>6. CASE /\ \A k \in DOMAIN queue : ~Concerns(queue[k], node, dir, c)
           /\ LastId(candidates, node, dir, c) = id
  <2>1. \A k \in DOMAIN (queue') : ~Concerns(queue'[k], node, dir, c)
    BY <1>2, <1>3, <1>6
  <2>. QED
    BY <1>4, <1>6, <2>1 DEF Reported, LastId, Fitting
<1>. QED
  BY <1>5, <1>6 DEF Reported

\* The ports of a sink that is plugged in are reported.
LEMMA ReportedWhenPlugged ==
  ASSUME EndpointType, NEW m \in Nodes, NEW ports \in SinkPorts,
         NEW events \in SinkEvents(m, ports), queue' = queue \o events,
         NEW c \in Channels
  PROVE  Reported(m, "in", c, ports[c])'
<1>. DEFINE n == Len(queue)
<1>1. events \in Seq(EventType) /\ Len(events) = 3
  BY SinkEventsReport
<1>2. PICK j \in 1 .. 3 :
        /\ events[j] = PortEvent(Port(ports[c], m, "in", c))
        /\ \A k \in 1 .. 3 : k > j => ~Concerns(events[k], m, "in", c)
  BY SinkEventsReport
<1>3. /\ n \in Nat /\ DOMAIN (queue') = 1 .. n + 3
      /\ \A k \in n + 1 .. n + 3 : k - n \in 1 .. 3 /\ queue'[k] = events[k - n]
  <2>. DEFINE l == Len(events)
  <2>. events \in Seq(EventType)
    BY <1>1
  <2>1. /\ n \in Nat /\ l \in Nat /\ DOMAIN (queue') = 1 .. n + l
        /\ \A k \in n + 1 .. n + l : k - n \in 1 .. l /\ queue'[k] = events[k - n]
    BY DEF EndpointType
  <2>2. l = 3
    BY <1>1
  <2>. HIDE DEF n, l
  <2>. QED
    BY <2>1, <2>2
<1>. HIDE DEF n
<1>4. n + j \in DOMAIN (queue') /\ queue'[n + j] = PortEvent(Port(ports[c], m, "in", c))
  <2>1. n + j \in n + 1 .. n + 3 /\ (n + j) - n = j
    BY <1>3
  <2>2. queue'[n + j] = events[j]
    BY <1>3, <2>1
  <2>. QED
    BY <1>2, <1>3, <2>1, <2>2
<1>5. ASSUME NEW k \in DOMAIN (queue'), k > n + j
      PROVE  ~Concerns(queue'[k], m, "in", c)
  <2>1. k \in n + 1 .. n + 3 /\ k - n > j
    BY <1>3, <1>5
  <2>. QED
    BY <1>2, <1>3, <2>1
<1>. QED
  BY <1>4, <1>5 DEF Reported

-----------------------------------------------------------------------------
(* The list of what is there when the listener is added.                   *)

\* The port that a node has for a channel when the list is made.
PortId(n, c) == IF n = OurNode THEN OurPorts[c] ELSE sinks[n][c]
Dir(n) == IF n = OurNode THEN "out" ELSE "in"

\* A node reports itself and its two ports.
LEMMA NodeReports ==
  ASSUME EndpointType, NEW n \in DOMAIN sinks \cup {OurNode}
  PROVE  LET event(c) == PortEvent(Port(PortId(n, c), n, Dir(n), c))
         IN  /\ NodeEvents(n)[1] = OtherEvent
             /\ NodeEvents(n)[2] = event("FL")
             /\ NodeEvents(n)[3] = event("FR")
             /\ event("FL") \in EventType /\ event("FR") \in EventType
<1>. DEFINE event(c) == PortEvent(Port(PortId(n, c), n, Dir(n), c))
<1>1. /\ NodeEvents(n)[1] = OtherEvent
      /\ NodeEvents(n)[2] = event("FL")
      /\ NodeEvents(n)[3] = event("FR")
  BY DEF NodeEvents, PortId, Dir
<1>2. ASSUME NEW c \in Channels PROVE event(c) \in EventType
  <2>1. PortId(n, c) \in Nat /\ n \in Nodes \cup {OurNode} /\ Dir(n) \in {"in", "out"}
    BY DEF PortId, Dir, EndpointType
  <2>2. Port(PortId(n, c), n, Dir(n), c) \in PortType
    BY <2>1 DEF Port, PortType
  <2>. QED
    BY <2>2 DEF PortEvent, EventType
<1>. QED
  BY <1>1, <1>2 DEF Channels

\* The place in the list of a node's event.
LEMMA Places ==
  ASSUME NEW k \in Nat, NEW i \in 1 .. 3 * k
  PROVE  /\ (i + 2) \div 3 \in 1 .. k /\ (i + 2) % 3 \in 0 .. 2
         /\ i + 2 = 3 * ((i + 2) \div 3) + ((i + 2) % 3)
OBVIOUS

\* And an event is at its place.
LEMMA PlaceOf ==
  ASSUME NEW k \in Nat, NEW q \in 1 .. k, NEW r \in 0 .. 2
  PROVE  LET i == 3 * q + r - 2
         IN  i \in 1 .. 3 * k /\ (i + 2) \div 3 = q /\ (i + 2) % 3 = r
OBVIOUS

\* Whatever the order of the nodes, the list reports the ports of each.
LEMMA ListReports ==
  ASSUME EndpointType, NEW k \in Nat,
         NEW order \in Bijection(1 .. k, DOMAIN sinks \cup {OurNode}),
         queue' = Listed(order),
         NEW n \in DOMAIN sinks \cup {OurNode}, NEW c \in Channels
  PROVE  /\ queue' \in Seq(EventType)
         /\ \E j \in DOMAIN (queue') :
              /\ queue'[j] = PortEvent(Port(PortId(n, c), n, Dir(n), c))
              /\ \A i \in DOMAIN (queue') : i > j => ~Concerns(queue'[i], n, Dir(n), c)
<1>. DEFINE N == DOMAIN sinks \cup {OurNode}
            r == IF c = "FL" THEN 1 ELSE 2
            node(i) == order[(i + 2) \div 3]
<1>1. /\ order \in [1 .. k -> N]
      /\ \A a, b \in 1 .. k : order[a] = order[b] => a = b
      /\ \E a \in 1 .. k : order[a] = n
  BY DEF Bijection, Injection, Surjection, IsInjective
<1>2. Len(order) = k
  BY <1>1
<1>3. /\ DOMAIN (queue') = 1 .. 3 * k
      /\ queue' = [i \in 1 .. 3 * k |-> NodeEvents(node(i))[((i + 2) % 3) + 1]]
  BY <1>2 DEF Listed
<1>4. ASSUME NEW i \in 1 .. 3 * k
      PROVE  /\ node(i) \in N
             /\ (i + 2) % 3 = 0 => queue'[i] = OtherEvent
             /\ (i + 2) % 3 = 1
                  => queue'[i] = PortEvent(Port(PortId(node(i), "FL"), node(i), Dir(node(i)), "FL"))
             /\ (i + 2) % 3 = 2
                  => queue'[i] = PortEvent(Port(PortId(node(i), "FR"), node(i), Dir(node(i)), "FR"))
             /\ queue'[i] \in EventType
  <2>1. (i + 2) \div 3 \in 1 .. k /\ (i + 2) % 3 \in 0 .. 2
    BY Places
  <2>2. node(i) \in N
    BY <1>1, <2>1
  <2>3. queue'[i] = NodeEvents(node(i))[((i + 2) % 3) + 1]
    BY <1>3
  <2>. DEFINE m == node(i)
              e == (i + 2) % 3
  <2>. HIDE DEF node, m, e
  <2>4. m \in N /\ queue'[i] = NodeEvents(m)[e + 1] /\ e \in 0 .. 2
    BY <2>1, <2>2, <2>3 DEF m, e
  <2>5. /\ e = 0 => queue'[i] = OtherEvent
        /\ e = 1 => queue'[i] = PortEvent(Port(PortId(m, "FL"), m, Dir(m), "FL"))
        /\ e = 2 => queue'[i] = PortEvent(Port(PortId(m, "FR"), m, Dir(m), "FR"))
        /\ queue'[i] \in EventType
    BY <2>4, NodeReports DEF EventType
  <2>. QED
    BY <2>2, <2>5 DEF m, e
<1>5. PICK q \in 1 .. k : order[q] = n
  BY <1>1
<1>. DEFINE j == 3 * q + r - 2
<1>6. j \in 1 .. 3 * k /\ (j + 2) \div 3 = q /\ (j + 2) % 3 = r
  <2>1. r \in 0 .. 2
    OBVIOUS
  <2>. HIDE DEF r
  <2>. QED
    BY <2>1, PlaceOf
<1>7. queue'[j] = PortEvent(Port(PortId(n, c), n, Dir(n), c))
  <2>1. node(j) = n
    BY <1>5, <1>6
  <2>2. (c = "FL" /\ r = 1) \/ (c = "FR" /\ r = 2)
    BY DEF Channels
  <2>. HIDE DEF node, r, j
  <2>. QED
    BY <1>4, <1>6, <2>1, <2>2
<1>8. ASSUME NEW i \in 1 .. 3 * k, Concerns(queue'[i], n, Dir(n), c) PROVE i = j
  <2>1. /\ (i + 2) \div 3 \in 1 .. k /\ (i + 2) % 3 \in 0 .. 2
        /\ i + 2 = 3 * ((i + 2) \div 3) + ((i + 2) % 3)
    BY Places
  <2>2. node(i) = n /\ (i + 2) % 3 = r
    <3>. DEFINE e == (i + 2) % 3
                m == node(i)
    <3>1. /\ e \in 0 .. 2 /\ m = node(i)
          /\ e = 0 => queue'[i] = OtherEvent
          /\ e = 1 => queue'[i] = PortEvent(Port(PortId(m, "FL"), m, Dir(m), "FL"))
          /\ e = 2 => queue'[i] = PortEvent(Port(PortId(m, "FR"), m, Dir(m), "FR"))
      BY <1>4, <2>1
    <3>. HIDE DEF node, e, m
    <3>2. m = n /\ e = r
      BY <1>8, <3>1 DEF Concerns, PortEvent, Port, OtherEvent, Channels
    <3>. QED
      BY <3>1, <3>2 DEF e, m
  <2>3. (i + 2) \div 3 = q
    BY <1>1, <1>5, <2>1, <2>2
  <2>4. r \in Nat
    OBVIOUS
  <2>. QED
    BY <2>1, <2>2, <2>3, <2>4
<1>9. queue' \in Seq(EventType)
  <2>. HIDE DEF node
  <2>1. queue' \in [1 .. 3 * k -> EventType]
    BY <1>3, <1>4
  <2>2. 3 * k \in Nat
    OBVIOUS
  <2>. QED
    BY <2>1, <2>2
<1>10. \A i \in DOMAIN (queue') : i > j => ~Concerns(queue'[i], n, Dir(n), c)
  <2>1. j \in Nat
    BY <1>6
  <2>. HIDE DEF j
  <2>. QED
    BY <1>3, <1>8, <2>1
<1>. QED
  BY <1>3, <1>6, <1>7, <1>9, <1>10

-----------------------------------------------------------------------------
(* The invariant                                                           *)

\* What is reported depends on the queue and the candidates alone.
LEMMA ReportedSame ==
  ASSUME NEW node, NEW dir, NEW c, NEW id, Reported(node, dir, c, id),
         UNCHANGED <<queue, candidates>>
  PROVE  Reported(node, dir, c, id)'
BY DEF Reported, LastId, Fitting

\* A step that leaves the listener and the sinks alone, and does not start to
\* listen, keeps the invariant.
LEMMA QuietStep ==
  ASSUME IInv, UNCHANGED <<registry, world>>,
         thread' \in {"run", "loop"} => thread \in {"run", "loop"}, StageInv'
  PROVE  IInv'
<1>1. UNCHANGED <<queue, candidates, linked_pairs, links, failed, sinks, reused>>
  BY DEF registry, world
<1>2. EndpointType' /\ SinksApart'
  BY <1>1 DEF IInv, EndpointType, SinksApart
<1>3. LinkInv'
  <2>1. Wanted(candidates)' = Wanted(candidates) /\ Plugged' = Plugged
    BY <1>1 DEF Plugged, Wanted, LastId, Fitting
  <2>. QED
    BY <1>1, <2>1 DEF IInv, LinkInv
<1>4. ReportInv'
  <2>1. SUFFICES ASSUME thread' \in {"run", "loop"}, NEW c \in Channels
                 PROVE  /\ Reported(OurNode, "out", c, OurPorts[c])'
                        /\ \A n \in DOMAIN sinks' : Reported(n, "in", c, sinks[n][c])'
    BY DEF ReportInv
  <2>2. Reported(OurNode, "out", c, OurPorts[c])
    BY <2>1 DEF IInv, ReportInv
  <2>3. Reported(OurNode, "out", c, OurPorts[c])'
    BY <1>1, <2>2, ReportedSame
  <2>4. ASSUME NEW n \in DOMAIN sinks' PROVE Reported(n, "in", c, sinks[n][c])'
    <3>1. PICK id : id = sinks[n][c]
      OBVIOUS
    <3>2. Reported(n, "in", c, id)
      BY <1>1, <2>1, <3>1 DEF IInv, ReportInv
    <3>3. Reported(n, "in", c, id)'
      BY <1>1, <3>2, ReportedSame
    <3>4. sinks'[n][c] = id
      BY <1>1, <3>1
    <3>. QED
      BY <3>3, <3>4
  <2>. QED
    BY <2>3, <2>4
<1>. QED
  BY <1>2, <1>3, <1>4 DEF IInv

\* A sink that comes brings ports no other sink has.
LEMMA PlugKeeps ==
  ASSUME IInv, NEW n \in Nodes, Plug(n)
  PROVE  IInv'
<1>1. PICK ports \in SinkPorts :
        /\ Range(ports) \cap Plugged = {}
        /\ sinks' = [m \in DOMAIN sinks \cup {n} |-> IF m = n THEN ports ELSE sinks[m]]
        /\ reused' = reused \cup (Range(ports) \cap Announced)
        /\ IF thread = "loop"
           THEN \E events \in SinkEvents(n, ports) : queue' = queue \o events
           ELSE UNCHANGED queue
  BY DEF Plug
<1>2. /\ UNCHANGED <<candidates, linked_pairs, links, failed, main, thread>>
      /\ n \notin DOMAIN sinks /\ (thread = "loop" \/ main = "begin")
  BY DEF Plug, control
<1>3. /\ DOMAIN sinks' = DOMAIN sinks \cup {n} /\ sinks'[n] = ports
      /\ \A m \in DOMAIN sinks : m # n /\ sinks'[m] = sinks[m]
  BY <1>1, <1>2
<1>4. \A m \in DOMAIN sinks : DOMAIN sinks[m] = Channels /\ sinks[m] \in SinkPorts
  BY DEF IInv, EndpointType
<1>5. EndpointType'
  <2>1. queue' \in Seq(EventType)
    <3>1. CASE thread = "loop"
      <4>1. PICK events \in SinkEvents(n, ports) : queue' = queue \o events
        BY <1>1, <3>1
      <4>2. events \in Seq(EventType)
        BY SinkEventsReport
      <4>. QED
        BY <4>1, <4>2 DEF IInv, EndpointType
    <3>2. CASE thread # "loop"
      BY <1>1, <3>2 DEF IInv, EndpointType
    <3>. QED
      BY <3>1, <3>2
  <2>2. IsFiniteSet(DOMAIN sinks')
    BY <1>3, FS_AddElement DEF IInv, EndpointType
  <2>3. sinks' \in [DOMAIN sinks' -> SinkPorts]
    BY <1>1, <1>3, <1>4
  <2>. QED
    BY <1>2, <1>3, <2>1, <2>2, <2>3 DEF IInv, EndpointType
<1>6. StageInv'
  BY <1>2 DEF IInv, StageInv
<1>7. \A m \in DOMAIN sinks : Range(sinks[m]) \subseteq Plugged
  BY <1>4 DEF Range, Plugged
<1>8. SinksApart'
  <2>1. SUFFICES ASSUME NEW a \in DOMAIN sinks', NEW b \in DOMAIN sinks', a # b
                 PROVE  Range(sinks'[a]) \cap Range(sinks'[b]) = {}
    BY DEF SinksApart
  <2>2. CASE a = n
    BY <1>1, <1>3, <1>7, <2>1, <2>2
  <2>3. CASE b = n
    BY <1>1, <1>3, <1>7, <2>1, <2>3
  <2>4. CASE a # n /\ b # n
    BY <1>3, <2>1, <2>4 DEF IInv, SinksApart
  <2>. QED
    BY <2>2, <2>3, <2>4
<1>9. LinkInv'
  <2>1. Wanted(candidates)' = Wanted(candidates)
    BY <1>2 DEF Wanted, LastId, Fitting
  <2>2. Plugged' = Plugged \cup Range(ports)
    <3>1. DOMAIN ports = Channels
      OBVIOUS
    <3>. QED
      BY <1>3, <3>1 DEF Plugged, Range
  <2>3. ASSUME NEW pair \in linked_pairs, pair[2] \in Plugged', pair[2] \notin reused'
        PROVE  pair \in links \cup failed
    <3>1. pair[2] \in Announced
      BY DEF IInv, LinkInv, Announced
    <3>2. pair[2] \in Plugged /\ pair[2] \notin reused
      BY <1>1, <2>2, <2>3, <3>1
    <3>. QED
      BY <3>2 DEF IInv, LinkInv
  <2>. QED
    BY <1>2, <2>1, <2>3 DEF IInv, LinkInv
<1>10. ReportInv'
  <2>1. SUFFICES ASSUME thread \in {"run", "loop"}, NEW c \in Channels
                 PROVE  /\ Reported(OurNode, "out", c, OurPorts[c])'
                        /\ \A m \in DOMAIN sinks' : Reported(m, "in", c, sinks[m][c])'
    BY <1>2 DEF ReportInv
  <2>2. thread = "loop"
    BY <1>2, <2>1 DEF IInv, StageInv
  <2>3. PICK events \in SinkEvents(n, ports) : queue' = queue \o events
    BY <1>1, <2>2
  <2>4. events \in Seq(EventType) /\ DOMAIN events = 1 .. 3
    BY SinkEventsReport
  <2>5. \A node, dir : node # n => \A k \in DOMAIN events : ~Concerns(events[k], node, dir, c)
    BY <2>4, SinkEventsReport
  <2>6. Reported(OurNode, "out", c, OurPorts[c])'
    <3>1. Reported(OurNode, "out", c, OurPorts[c])
      BY <2>1 DEF IInv, ReportInv
    <3>. QED
      BY <1>2, <2>3, <2>4, <2>5, <3>1, ReportedAfterPlug DEF IInv
  <2>7. ASSUME NEW m \in DOMAIN sinks, m # n PROVE Reported(m, "in", c, sinks[m][c])'
    <3>1. PICK id : id = sinks[m][c]
      OBVIOUS
    <3>2. Reported(m, "in", c, id)
      BY <2>1, <3>1 DEF IInv, ReportInv
    <3>3. Reported(m, "in", c, id)'
      BY <1>2, <2>3, <2>4, <2>5, <2>7, <3>2, ReportedAfterPlug DEF IInv
    <3>. QED
      BY <1>3, <3>1, <3>3
  <2>8. Reported(n, "in", c, sinks[n][c])'
    <3>1. Reported(n, "in", c, ports[c])'
      BY <2>3, ReportedWhenPlugged DEF IInv
    <3>. QED
      BY <1>3, <3>1
  <2>. QED
    BY <1>3, <2>6, <2>7, <2>8
<1>. QED
  BY <1>5, <1>6, <1>8, <1>9, <1>10 DEF IInv

\* A sink that goes takes its own links only.
LEMMA UnplugKeeps ==
  ASSUME IInv, NEW n \in Nodes, Unplug(n)
  PROVE  IInv'
<1>1. /\ n \in DOMAIN sinks
      /\ sinks' = [m \in DOMAIN sinks \ {n} |-> sinks[m]]
      /\ links' = {pair \in links : pair[2] \notin Range(sinks[n])}
      /\ UNCHANGED <<queue, candidates, linked_pairs, failed, reused, main, thread>>
  BY DEF Unplug, control
<1>2. /\ DOMAIN sinks' = DOMAIN sinks \ {n}
      /\ \A m \in DOMAIN sinks' : m \in DOMAIN sinks /\ m # n /\ sinks'[m] = sinks[m]
  BY <1>1
<1>3. \A m \in DOMAIN sinks : DOMAIN sinks[m] = Channels /\ sinks[m] \in SinkPorts
  BY DEF IInv, EndpointType
<1>4. EndpointType'
  <2>1. IsFiniteSet(DOMAIN sinks')
    BY <1>2, FS_Subset DEF IInv, EndpointType
  <2>2. sinks' \in [DOMAIN sinks' -> SinkPorts]
    BY <1>1, <1>2, <1>3
  <2>. QED
    BY <1>1, <1>2, <2>1, <2>2 DEF IInv, EndpointType
<1>5. StageInv'
  BY <1>1 DEF IInv, StageInv
<1>6. SinksApart'
  BY <1>2 DEF IInv, SinksApart
<1>7. LinkInv'
  <2>1. Wanted(candidates)' = Wanted(candidates)
    BY <1>1 DEF Wanted, LastId, Fitting
  <2>2. ASSUME NEW id \in Plugged' PROVE id \in Plugged /\ id \notin Range(sinks[n])
    <3>1. PICK m \in DOMAIN sinks' : \E c \in Channels : id = sinks'[m][c]
      BY <2>2 DEF Plugged
    <3>2. PICK c \in Channels : id = sinks[m][c]
      BY <1>2, <3>1
    <3>3. id \in Range(sinks[m])
      BY <1>2, <1>3, <3>2 DEF Range
    <3>4. id \in Plugged
      BY <1>2, <3>2 DEF Plugged
    <3>. QED
      BY <1>1, <1>2, <3>3, <3>4 DEF IInv, SinksApart
  <2>3. ASSUME NEW pair \in linked_pairs, pair[2] \in Plugged', pair[2] \notin reused
        PROVE  pair \in links' \cup failed'
    <3>1. pair[2] \in Plugged /\ pair[2] \notin Range(sinks[n])
      BY <2>2, <2>3
    <3>2. pair \in links \cup failed
      BY <2>3, <3>1 DEF IInv, LinkInv
    <3>. QED
      BY <1>1, <3>1, <3>2
  <2>. QED
    BY <1>1, <2>1, <2>3 DEF IInv, LinkInv
<1>8. ReportInv'
  <2>1. SUFFICES ASSUME thread \in {"run", "loop"}, NEW c \in Channels
                 PROVE  /\ Reported(OurNode, "out", c, OurPorts[c])'
                        /\ \A m \in DOMAIN sinks' : Reported(m, "in", c, sinks[m][c])'
    BY <1>1 DEF ReportInv
  <2>2. Reported(OurNode, "out", c, OurPorts[c])'
    <3>1. Reported(OurNode, "out", c, OurPorts[c])
      BY <2>1 DEF IInv, ReportInv
    <3>. QED
      BY <1>1, <3>1, ReportedSame
  <2>3. ASSUME NEW m \in DOMAIN sinks' PROVE Reported(m, "in", c, sinks[m][c])'
    <3>1. PICK id : id = sinks[m][c]
      OBVIOUS
    <3>2. Reported(m, "in", c, id)
      BY <1>2, <2>1, <3>1 DEF IInv, ReportInv
    <3>3. Reported(m, "in", c, id)'
      BY <1>1, <3>2, ReportedSame
    <3>. QED
      BY <1>2, <3>1, <3>3
  <2>. QED
    BY <2>2, <2>3
<1>. QED
  BY <1>4, <1>5, <1>6, <1>7, <1>8 DEF IInv

\* The listener's handling of an event tries to link with what it knows then.
LEMMA DispatchKeeps ==
  ASSUME IInv, Dispatch
  PROVE  IInv'
<1>1. /\ queue # << >> /\ Handled(Head(queue)) /\ queue' = Tail(queue)
      /\ UNCHANGED <<main, thread, sinks, reused>>
  BY DEF Dispatch, control, world
<1>2. Head(queue) \in EventType /\ Tail(queue) \in Seq(EventType)
  BY <1>1 DEF IInv, EndpointType
<1>3. PICK ports \in Seq(PortType) :
        /\ candidates' = ports /\ TryLink(ports)
        /\ \A i \in DOMAIN candidates : i \in DOMAIN ports /\ ports[i] = candidates[i]
  <2>1. candidates \in Seq(PortType)
    BY DEF IInv, EndpointType
  <2>2. CASE Head(queue).kind = "port"
    <3>1. Head(queue).port \in PortType
      BY <1>2, <2>2 DEF EventType, OtherEvent
    <3>2. /\ candidates' = Append(candidates, Head(queue).port)
          /\ TryLink(Append(candidates, Head(queue).port))
      BY <1>1, <2>2 DEF Handled
    <3>3. /\ Append(candidates, Head(queue).port) \in Seq(PortType)
          /\ \A i \in DOMAIN candidates :
               /\ i \in DOMAIN Append(candidates, Head(queue).port)
               /\ Append(candidates, Head(queue).port)[i] = candidates[i]
      BY <2>1, <3>1
    <3>. QED
      BY <3>2, <3>3
  <2>3. CASE Head(queue).kind # "port"
    BY <1>1, <2>1, <2>3 DEF Handled
  <2>. QED
    BY <2>2, <2>3
<1>4. EndpointType' /\ StageInv' /\ SinksApart'
  BY <1>1, <1>2, <1>3 DEF IInv, EndpointType, StageInv, SinksApart
<1>5. LinkInv'
  BY <1>1, <1>3, LinkedWhenTried DEF IInv
<1>6. ReportInv'
  <2>1. SUFFICES ASSUME thread \in {"run", "loop"}, NEW c \in Channels
                 PROVE  /\ Reported(OurNode, "out", c, OurPorts[c])'
                        /\ \A m \in DOMAIN sinks' : Reported(m, "in", c, sinks[m][c])'
    BY <1>1 DEF ReportInv
  <2>2. Reported(OurNode, "out", c, OurPorts[c])'
    <3>1. Reported(OurNode, "out", c, OurPorts[c])
      BY <2>1 DEF IInv, ReportInv
    <3>. QED
      BY <1>1, <3>1, ReportedAfterDispatch DEF IInv
  <2>3. ASSUME NEW m \in DOMAIN sinks' PROVE Reported(m, "in", c, sinks[m][c])'
    <3>1. PICK id : id = sinks[m][c]
      OBVIOUS
    <3>2. Reported(m, "in", c, id)
      BY <1>1, <2>1, <3>1 DEF IInv, ReportInv
    <3>3. Reported(m, "in", c, id)'
      BY <1>1, <3>2, ReportedAfterDispatch DEF IInv
    <3>. QED
      BY <1>1, <3>1, <3>3
  <2>. QED
    BY <2>2, <2>3
<1>. QED
  BY <1>4, <1>5, <1>6 DEF IInv

\* When the listener is added, all there is will be reported to it.
LEMMA FilterConnectKeeps ==
  ASSUME IInv, FilterConnect
  PROVE  IInv'
<1>1. /\ thread = "connect"
      /\ UNCHANGED <<main, candidates, linked_pairs, links, failed, sinks, reused>>
  BY DEF FilterConnect, world
<1>2. StageInv'
  BY <1>1 DEF IInv, StageInv
<1>3. CASE thread' = "run"
  <2>. DEFINE N == DOMAIN sinks \cup {OurNode}
              k == Cardinality(N)
  <2>1. PICK order \in Bijection(1 .. k, N) : queue' = Listed(order)
    BY <1>3 DEF FilterConnect
  <2>2. k \in Nat
    <3>1. IsFiniteSet(N)
      BY FS_AddElement DEF IInv, EndpointType
    <3>. HIDE DEF N
    <3>. QED
      BY <3>1, FS_CardinalityType
  <2>. HIDE DEF k
  <2>3. ASSUME NEW n \in N, NEW c \in Channels
        PROVE  /\ queue' \in Seq(EventType)
               /\ Reported(n, Dir(n), c, PortId(n, c))'
    <3>. DEFINE id == PortId(n, c)
    <3>1. PICK j \in DOMAIN (queue') :
            /\ queue'[j] = PortEvent(Port(id, n, Dir(n), c))
            /\ \A i \in DOMAIN (queue') : i > j => ~Concerns(queue'[i], n, Dir(n), c)
      BY <2>1, <2>2, ListReports DEF IInv
    <3>2. queue' \in Seq(EventType)
      BY <2>1, <2>2, ListReports DEF IInv
    <3>3. PortId(n, c)' = PortId(n, c)
      BY <1>1 DEF PortId
    <3>. QED
      BY <3>1, <3>2, <3>3 DEF Reported
  <2>4. queue' \in Seq(EventType)
    BY <2>3 DEF Channels
  <2>5. EndpointType' /\ SinksApart'
    BY <1>1, <2>4 DEF IInv, EndpointType, SinksApart
  <2>6. LinkInv'
    <3>1. Wanted(candidates)' = Wanted(candidates) /\ Plugged' = Plugged
      BY <1>1 DEF Plugged, Wanted, LastId, Fitting
    <3>. QED
      BY <1>1, <3>1 DEF IInv, LinkInv
  <2>7. ReportInv'
    <3>1. ASSUME NEW c \in Channels PROVE Reported(OurNode, "out", c, OurPorts[c])'
      BY <2>3 DEF Dir, PortId
    <3>2. ASSUME NEW n \in DOMAIN sinks, NEW c \in Channels
          PROVE  Reported(n, "in", c, sinks[n][c])'
      <4>1. n # OurNode
        BY DEF IInv, EndpointType
      <4>. QED
        BY <2>3, <4>1 DEF Dir, PortId
    <3>. QED
      BY <1>1, <3>1, <3>2 DEF ReportInv
  <2>. QED
    BY <1>2, <2>5, <2>6, <2>7 DEF IInv
<1>4. CASE thread' # "run"
  <2>1. thread' = "failed" /\ UNCHANGED <<registry, world>>
    BY <1>4 DEF FilterConnect, registry
  <2>. QED
    BY <1>2, <2>1, QuietStep
<1>. QED
  BY <1>3, <1>4

\* A teardown leaves nothing announced and nothing linked.
LEMMA TeardownKeeps ==
  ASSUME IInv, Teardown
  PROVE  IInv'
<1>1. /\ thread = "teardown" /\ thread' = "torn" /\ main' = main
      /\ queue' = << >> /\ candidates' = << >> /\ linked_pairs' = {} /\ links' = {}
      /\ UNCHANGED <<sinks, reused>>
  BY DEF Teardown, world
<1>2. EndpointType' /\ StageInv' /\ SinksApart' /\ ReportInv'
  BY <1>1 DEF IInv, EndpointType, StageInv, SinksApart, ReportInv
<1>3. (Wanted(candidates) \subseteq linked_pairs)'
  BY <1>1 DEF Wanted, LastId, Fitting, Channels
<1>. QED
  BY <1>1, <1>2, <1>3 DEF IInv, LinkInv

\* The invariant holds at the start.
LEMMA InitHolds == Init => IInv
<1>. SUFFICES ASSUME Init PROVE IInv
  OBVIOUS
<1>1. DOMAIN sinks = {} /\ sinks \in [DOMAIN sinks -> SinkPorts]
  BY DEF Init
<1>2. EndpointType
  BY <1>1, FS_EmptySet DEF Init, EndpointType
<1>3. StageInv /\ SinksApart /\ ReportInv
  BY <1>1 DEF Init, StageInv, SinksApart, ReportInv
<1>4. LinkInv
  BY DEF Init, LinkInv, Wanted, LastId, Fitting, Channels
<1>. QED
  BY <1>2, <1>3, <1>4 DEF IInv

\* Every step keeps the invariant: those of the listener and of the sinks, by
\* the lemmas above, the others because they leave both alone.
LEMMA NextKeeps == IInv /\ [Next]_vars => IInv'
<1>. SUFFICES ASSUME IInv, [Next]_vars PROVE IInv'
  OBVIOUS
<1>1. CASE MainThread
  <2>1. UNCHANGED <<registry, world>>
    BY <1>1 DEF MainThread, Start, WaitForStream, StopBegin, StopQuit, StopJoin
  <2>2. main' # "begin"
    BY <1>1 DEF MainThread, Start, WaitForStream, StopBegin, StopQuit, StopJoin
  <2>3. thread' = thread \/ thread' \in {"new", "none"}
    BY <1>1 DEF MainThread, Start, WaitForStream, StopBegin, StopQuit, StopJoin
  <2>. QED
    BY <2>1, <2>2, <2>3, QuietStep DEF StageInv
<1>2. CASE LoopThread
  <2>1. CASE FilterConnect
    BY <2>1, FilterConnectKeeps
  <2>2. CASE Teardown
    BY <2>2, TeardownKeeps
  <2>3. CASE LoopNew \/ FilterNew \/ FailForget \/ FailEnd \/ RunLoop \/ LoopQuit \/ ThreadEnd
    <3>1. UNCHANGED <<registry, world>> /\ main' = main /\ thread # "none"
      BY <2>3 DEF LoopNew, FilterNew, FailForget, FailEnd, RunLoop, LoopQuit, ThreadEnd
    <3>2. thread' \in {"run", "loop"} => thread \in {"run", "loop"}
      BY <2>3 DEF LoopNew, FilterNew, FailForget, FailEnd, RunLoop, LoopQuit, ThreadEnd
    <3>. QED
      BY <3>1, <3>2, QuietStep DEF IInv, StageInv
  <2>. QED
    BY <1>2, <2>1, <2>2, <2>3 DEF LoopThread
<1>3. CASE Dispatch
  BY <1>3, DispatchKeeps
<1>4. CASE RtBegin \/ RtEnd
  <2>1. UNCHANGED <<registry, world, main, thread>>
    BY <1>4 DEF RtBegin, RtEnd
  <2>. QED
    BY <2>1, QuietStep DEF IInv, StageInv
<1>5. CASE \E n \in Nodes : Plug(n) \/ Unplug(n)
  BY <1>5, PlugKeeps, UnplugKeeps
<1>6. CASE UNCHANGED vars
  <2>1. UNCHANGED <<registry, world, main, thread>>
    BY <1>6 DEF vars, control
  <2>. QED
    BY <2>1, QuietStep DEF IInv, StageInv
<1>. QED
  BY <1>1, <1>2, <1>3, <1>4, <1>5, <1>6 DEF Next

\* With nothing left to report, what is plugged in is wanted, so it was tried.
LEMMA ReportedIsLinked == IInv => EverySinkLinked
<1>. SUFFICES ASSUME IInv, thread = "loop", queue = << >>,
                     NEW n \in DOMAIN sinks, NEW c \in Channels,
                     Range(sinks[n]) \cap reused = {}
              PROVE  <<OurPorts[c], sinks[n][c]>> \in links \cup failed
  BY DEF EverySinkLinked
<1>1. \A d \in Channels : /\ LastId(candidates, OurNode, "out", d) = OurPorts[d]
                          /\ LastId(candidates, n, "in", d) = sinks[n][d]
  BY DEF IInv, ReportInv, Reported
<1>2. n \in Nodes /\ sinks[n] \in [Channels -> Nat \ {0}]
  BY DEF IInv, EndpointType
<1>3. \A d \in Channels : OurPorts[d] # 0 /\ sinks[n][d] # 0
  BY <1>2
<1>4. <<OurPorts[c], sinks[n][c]>> \in Wanted(candidates)
  BY <1>1, <1>2, <1>3 DEF Wanted
<1>5. sinks[n][c] \in Plugged \ reused
  BY <1>2 DEF Plugged, Range
<1>. QED
  BY <1>4, <1>5 DEF IInv, LinkInv

\* The invariant holds in every state, for any sinks, port ids and number of
\* times they come and go.
THEOREM Invariance == Spec => []IInv
<1>1. Init => IInv
  BY InitHolds
<1>2. IInv /\ [Next]_vars => IInv'
  BY NextKeeps
<1>. QED
  BY <1>1, <1>2, PTL DEF Spec

\* Once everything the registry reported is handled, every sink plugged in is
\* linked, however nodes were listed and ports announced, unless its link could
\* not be made or the id of one of its ports was another port's before.
THEOREM SinksAreLinked == Spec => []EverySinkLinked
<1>1. IInv => EverySinkLinked
  BY ReportedIsLinked
<1>. QED
  BY <1>1, Invariance, PTL
=============================================================================
