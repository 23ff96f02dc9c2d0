------------------------------ MODULE Endpoint ------------------------------
(***************************************************************************)
(* PipeWireEndpoint: the thread that runs PipeWire's main loop, how the    *)
(* main thread starts and stops it, the realtime callback, and the         *)
(* registry listener that links the program's two ports to the sinks.      *)
(*                                                                         *)
(* Three threads: the main thread (main.cpp: start, wait_for_stream, the   *)
(* GUI, stop, and stop again in the destructor), the loop thread, in which *)
(* the registry's events are handled, and PipeWire's data thread, which    *)
(* calls handle_process.  PipeWire itself is external: sinks come and go,  *)
(* their ids are reused, and the calls whose result the code tests may     *)
(* fail: to make the loop, the filter and a link, and to connect.          *)
(*                                                                         *)
(* Data: a port is a record of what try_link looks at.  The strings are    *)
(* left out, with them the ports of other programs whose path contains     *)
(* this program's name.                                                    *)
(***************************************************************************)
EXTENDS Integers, Sequences, FiniteSetsExt, Functions

CONSTANTS
  Nodes,       \* node ids of sinks
  SinkPorts,   \* the port ids a sink may get, by channel
  OurNode,     \* node id of the filter
  OurPorts,    \* ids of output_FL and output_FR, by channel
  MaxPlugs     \* bound: how often a sink appears

Channels == {"FL", "FR"}

ASSUME EndpointAssumption ==
  /\ OurNode \notin Nodes
  /\ OurPorts \in [Channels -> Nat \ {0}]
  /\ SinkPorts \subseteq [Channels -> Nat \ {0}]
  /\ \A ports \in SinkPorts : Range(ports) \cap (Range(OurPorts) \cup {0}) = {}

VARIABLES
  main,        \* what the main thread is at
  running, streaming, count,   \* running_, streaming_, process_count_ > 0
  loop_,       \* the loop pointer the main thread reads: set or not
  loop,        \* the loop object: "none", "live", "destroyed"
  quit,        \* pw_main_loop_quit was called on the loop
  thread,      \* what the loop thread is at
  filter,      \* the filter: "none", "made", "connected"
  rt,          \* the data thread: "idle" or inside handle_process
  queue,       \* registry events not yet handled
  candidates, linked_pairs,    \* RegistryContext
  sinks,       \* the sinks plugged in: node id -> port id by channel
  links,       \* the links that exist
  plugs,       \* sinks plugged in so far
  \* history
  failed,      \* pairs whose link could not be made
  reused       \* port ids given out more than once

control == <<main, running, streaming, count, loop_, loop, quit, thread,
             filter, rt>>
registry == <<queue, candidates, linked_pairs, links, failed>>
world == <<sinks, plugs, reused>>
vars == <<control, registry, world>>

-----------------------------------------------------------------------------
(* RegistryContext::try_link.                                              *)

Port(id, node, dir, channel) ==
  [id |-> id, node |-> node, dir |-> dir, channel |-> channel]

\* Where the ports of a node, direction and channel are among those announced.
Fitting(ports, node, dir, c) ==
  {i \in DOMAIN ports : ports[i] = Port(ports[i].id, node, dir, c)}

\* A faulty variant of LastId: the first port that fits stays.
FirstId(ports, node, dir, c) ==
  LET fits == Fitting(ports, node, dir, c)
  IN  IF fits = {} THEN 0 ELSE ports[Min(fits)].id

\* The last port announced for a node, direction and channel, 0 if none.
LastId(ports, node, dir, c) ==
  LET fits == Fitting(ports, node, dir, c)
  IN  IF fits = {} THEN 0 ELSE ports[Max(fits)].id

\* The pairs of ports that should be linked, given the ports announced.
Wanted(ports) ==
  LET our(c) == LastId(ports, OurNode, "out", c)
      sink(n, c) == LastId(ports, n, "in", c)
      whole == {n \in Nodes : \A c \in Channels : sink(n, c) # 0}
  IN  IF \E c \in Channels : our(c) = 0 THEN {}
      ELSE {<<our(c), sink(n, c)>> : c \in Channels, n \in whole}

\* The ports a link may end at: PipeWire makes no link to others.
Plugged == UNION {{sinks[n][c] : c \in Channels} : n \in DOMAIN sinks}

\* A pair counts as linked before pw_core_create_object is called, and still
\* does when that has failed.
TryLink(ports) ==
  LET new == Wanted(ports) \ linked_pairs
  IN  /\ linked_pairs' = linked_pairs \cup new
      /\ \E lost \in SUBSET new :
           /\ failed' = failed \cup lost
           /\ links' = links \cup {pair \in new \ lost : pair[2] \in Plugged}

\* on_registry_global and the metadata and state listeners: ports are noted
\* down, and everything else that is reported tries again.
Handled(event) ==
  IF event.kind = "port"
  THEN /\ candidates' = Append(candidates, event.port)
       /\ TryLink(Append(candidates, event.port))
  ELSE TryLink(candidates) /\ UNCHANGED candidates

PortEvent(port) == [kind |-> "port", port |-> port]
OtherEvent == [kind |-> "other"]

-----------------------------------------------------------------------------
(* PipeWire: sinks come and go.                                            *)

\* A sink is announced before its ports, and these in some order.
SinkEvents(n, ports) ==
  LET event(c) == PortEvent(Port(ports[c], n, "in", c))
  IN  {<<OtherEvent, event("FL"), event("FR")>>,
       <<OtherEvent, event("FR"), event("FL")>>}

\* The ids in the candidates, or about to be.
Announced ==
  {candidates[i].id : i \in DOMAIN candidates}
    \cup {queue[i].port.id : i \in {j \in DOMAIN queue : queue[j].kind = "port"}}

\* Sinks are there before the program starts or come while it listens.
Plug(n) ==
  /\ main = "begin" \/ thread = "loop"
  /\ n \notin DOMAIN sinks
  /\ plugs < MaxPlugs
  /\ plugs' = plugs + 1
  /\ \E ports \in SinkPorts :
       /\ Range(ports) \cap Plugged = {}
       /\ sinks' = [m \in DOMAIN sinks \cup {n} |->
                      IF m = n THEN ports ELSE sinks[m]]
       /\ reused' = reused \cup (Range(ports) \cap Announced)
       /\ IF thread = "loop"
          THEN \E events \in SinkEvents(n, ports) : queue' = queue \o events
          ELSE UNCHANGED queue
  /\ UNCHANGED <<control, candidates, linked_pairs, links, failed>>

\* Its links go with a sink; the listener has no global_remove.
Unplug(n) ==
  /\ n \in DOMAIN sinks
  /\ sinks' = [m \in DOMAIN sinks \ {n} |-> sinks[m]]
  /\ links' = {pair \in links : pair[2] \notin Range(sinks[n])}
  /\ UNCHANGED <<control, queue, candidates, linked_pairs, failed, plugs, reused>>

-----------------------------------------------------------------------------
(* loop_thread_fn.                                                         *)

\* pw_main_loop_new
LoopNew ==
  /\ thread = "new"
  /\ \/ /\ loop' = "live"
        /\ loop_' = TRUE
        /\ thread' = "filter"
        /\ UNCHANGED running
     \/ /\ running' = FALSE
        /\ thread' = "done"
        /\ UNCHANGED <<loop, loop_>>
  /\ UNCHANGED <<main, streaming, count, quit, filter, rt, registry, world>>

\* pw_filter_new_simple
FilterNew ==
  /\ thread = "filter"
  /\ \/ filter' = "made" /\ thread' = "connect" /\ UNCHANGED loop
     \/ loop' = "destroyed" /\ thread' = "failed" /\ UNCHANGED filter
  /\ UNCHANGED <<main, running, streaming, count, loop_, quit, rt,
                 registry, world>>

\* What the registry lists of a node when the listener is added: the node before
\* its ports, and of these the left one first.
NodeEvents(n) ==
  LET event(c) == IF n = OurNode
                  THEN PortEvent(Port(OurPorts[c], n, "out", c))
                  ELSE PortEvent(Port(sinks[n][c], n, "in", c))
  IN  <<OtherEvent, event("FL"), event("FR")>>

\* The list, node after node.
Listed(order) ==
  [i \in 1 .. 3 * Len(order) |->
     NodeEvents(order[(i + 2) \div 3])[((i + 2) % 3) + 1]]

\* The ports and pw_filter_connect; then the registry's listener, to which
\* the ports of the filter and those of the sinks are announced.
FilterConnect ==
  /\ thread = "connect"
  /\ \/ /\ filter' = "connected"
        /\ thread' = "run"
        /\ LET nodes == DOMAIN sinks \cup {OurNode}
           IN  \E order \in Bijection(1 .. Cardinality(nodes), nodes) :
                 queue' = Listed(order)
        /\ UNCHANGED loop
     \/ /\ filter' = "none"
        /\ loop' = "destroyed"
        /\ thread' = "failed"
        /\ UNCHANGED queue
  /\ UNCHANGED <<main, running, streaming, count, loop_, quit, rt,
                 candidates, linked_pairs, links, failed, world>>

\* The error paths forget the loop after they have destroyed it.
FailForget ==
  /\ thread = "failed"
  /\ loop_' = FALSE
  /\ thread' = "ending"
  /\ UNCHANGED <<main, running, streaming, count, loop, quit, filter, rt,
                 registry, world>>

FailEnd ==
  /\ thread = "ending"
  /\ running' = FALSE
  /\ thread' = "done"
  /\ UNCHANGED <<main, streaming, count, loop_, loop, quit, filter, rt,
                 registry, world>>

\* pw_main_loop_run: a quit from before it may be lost.
RunLoop ==
  /\ thread = "run"
  /\ thread' = "loop"
  /\ quit' \in {quit, FALSE}
  /\ UNCHANGED <<main, running, streaming, count, loop_, loop, filter, rt,
                 registry, world>>

\* The loop hands the next registry event to the listener.
Dispatch ==
  /\ thread = "loop"
  /\ queue # << >>
  /\ Handled(Head(queue))
  /\ queue' = Tail(queue)
  /\ UNCHANGED <<control, world>>

LoopQuit ==
  /\ thread = "loop"
  /\ quit
  /\ thread' = "teardown"
  /\ UNCHANGED <<main, running, streaming, count, loop_, loop, quit, filter, rt,
                 registry, world>>

\* The proxies, then the filter, which waits for the data thread, and the
\* loop.  The links go with their proxies.
Teardown ==
  /\ thread = "teardown"
  /\ rt = "idle"
  /\ queue' = << >>
  /\ candidates' = << >>
  /\ linked_pairs' = {}
  /\ links' = {}
  /\ failed' = {}
  /\ filter' = "none"
  /\ loop' = "destroyed"
  /\ thread' = "torn"
  /\ UNCHANGED <<main, running, streaming, count, loop_, quit, rt, world>>

ThreadEnd ==
  /\ thread = "torn"
  /\ loop_' = FALSE
  /\ thread' = "done"
  /\ UNCHANGED <<main, running, streaming, count, loop, quit, filter, rt,
                 registry, world>>

-----------------------------------------------------------------------------
(* handle_process, in the data thread.                                     *)

RtBegin ==
  /\ filter = "connected"
  /\ thread \in {"run", "loop", "teardown"}
  /\ rt = "idle"
  /\ running
  /\ rt' = "process"
  /\ UNCHANGED <<main, running, streaming, count, loop_, loop, quit, thread,
                 filter, registry, world>>

\* engine_.process has run, or the buffers were not there.
RtEnd ==
  /\ rt = "process"
  /\ rt' = "idle"
  /\ \/ streaming' = TRUE /\ count' = TRUE
     \/ UNCHANGED <<streaming, count>>
  /\ UNCHANGED <<main, running, loop_, loop, quit, thread, filter, registry,
                 world>>

-----------------------------------------------------------------------------
(* The main thread.                                                        *)

Start ==
  /\ main = "begin"
  /\ ~running
  /\ running' = TRUE
  /\ streaming' = FALSE
  /\ count' = FALSE
  /\ thread' = "new"
  /\ main' = "wait"
  /\ UNCHANGED <<loop_, loop, quit, filter, rt, registry, world>>

\* wait_for_stream: it saw a quantum, or its time was up.
WaitForStream ==
  /\ main = "wait"
  /\ main' \in (IF streaming /\ count THEN {"play"} ELSE {}) \cup {"silent"}
  /\ UNCHANGED <<running, streaming, count, loop_, loop, quit, thread, filter,
                 rt, registry, world>>

\* stop: after the GUI or because it could not be loaded, and once more in
\* the destructor.
StopBegin ==
  /\ main \in {"play", "silent", "stopped"}
  /\ running' = FALSE
  /\ main' = "quit"
  /\ UNCHANGED <<streaming, count, loop_, loop, quit, thread, filter, rt,
                 registry, world>>

StopQuit ==
  /\ main = "quit"
  /\ quit' = (quit \/ loop_)
  /\ main' = "join"
  /\ UNCHANGED <<running, streaming, count, loop_, loop, thread, filter, rt,
                 registry, world>>

\* A faulty variant of StopJoin: the stream is still reported afterwards.
StopJoinStreaming ==
  /\ main = "join"
  /\ thread \in {"done", "none"}
  /\ thread' = "none"
  /\ main' = "stopped"
  /\ UNCHANGED <<running, streaming, count, loop_, loop, quit, filter, rt,
                 registry, world>>

\* join, at once if the thread is not joinable; then the stream is off.
StopJoin ==
  /\ main = "join"
  /\ thread \in {"done", "none"}
  /\ thread' = "none"
  /\ streaming' = FALSE
  /\ main' = "stopped"
  /\ UNCHANGED <<running, count, loop_, loop, quit, filter, rt, registry,
                 world>>

Init ==
  /\ main = "begin"
  /\ running = FALSE
  /\ streaming = FALSE
  /\ count = FALSE
  /\ loop_ = FALSE
  /\ loop = "none"
  /\ quit = FALSE
  /\ thread = "none"
  /\ filter = "none"
  /\ rt = "idle"
  /\ queue = << >>
  /\ candidates = << >>
  /\ linked_pairs = {}
  /\ sinks = << >>
  /\ links = {}
  /\ plugs = 0
  /\ failed = {}
  /\ reused = {}

LoopThread ==
  \/ LoopNew \/ FilterNew \/ FilterConnect \/ FailForget \/ FailEnd
  \/ RunLoop \/ LoopQuit \/ Teardown \/ ThreadEnd

MainThread == Start \/ WaitForStream \/ StopBegin \/ StopQuit \/ StopJoin

Next ==
  \/ MainThread \/ LoopThread \/ Dispatch \/ RtBegin \/ RtEnd
  \/ \E n \in Nodes : Plug(n) \/ Unplug(n)

\* The threads of the program go on, and the loop handles what it is asked to.
Spec ==
  /\ Init
  /\ [][Next]_vars
  /\ WF_vars(StopQuit) /\ WF_vars(StopJoin)
  /\ WF_vars(LoopNew) /\ WF_vars(FilterNew) /\ WF_vars(FilterConnect)
  /\ WF_vars(FailForget) /\ WF_vars(FailEnd) /\ WF_vars(RunLoop)
  /\ WF_vars(LoopQuit) /\ WF_vars(Teardown) /\ WF_vars(ThreadEnd)
  /\ WF_vars(RtEnd)

-----------------------------------------------------------------------------
(* Properties.                                                             *)

\* Once everything the registry reported is handled, every sink plugged in
\* is linked, left to left and right to right, whether the sinks or the
\* program's own ports are listed first, in whichever order the ports of a new
\* sink come, and whichever sinks have gone.  Two exceptions, both because a pair
\* is never taken out of linked_pairs: a link that could not be made is not
\* tried again, and a port whose id belonged to another port before is taken
\* for linked.
EverySinkLinked ==
  thread = "loop" /\ queue = << >> =>
    \A n \in DOMAIN sinks : \A c \in Channels :
      LET pair == <<OurPorts[c], sinks[n][c]>> IN
      \/ pair \in links
      \/ pair \in failed
      \/ Range(sinks[n]) \cap reused # {}

\* stop returns, and leaves no callback running and no stream reported, if
\* it is called when the loop runs or the thread has ended by itself.  (When
\* it comes before that, it finds no loop to quit, or quits one that is about
\* to be run, and waits for ever.)
StopReturns ==
  main = "quit" /\ thread \in {"loop", "done", "none"} ~>
    main = "stopped" /\ thread = "none" /\ rt = "idle" /\ ~streaming
=============================================================================
