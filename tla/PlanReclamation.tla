------------------------- MODULE PlanReclamation -------------------------
(***************************************************************************)
(* What the plan publication protocol promises, with no word on how: the   *)
(* control side allocates render plans and installs them one after the     *)
(* other, the realtime thread pins the installed plan for one audio        *)
(* quantum, and memory is given back only for plans that are neither       *)
(* installed nor pinned.  docs/architecture.md section 6 states the        *)
(* promise: a plan is "guaranteed alive throughout the quantum duration".  *)
(***************************************************************************)
EXTENDS Naturals

CONSTANT Generation   \* the numbers a plan may carry, all above 0

NoPlan == 0           \* nullptr

VARIABLES
  current,            \* the plan installed for the realtime thread
  pinned,             \* the plan the realtime thread renders with, if any
  alive               \* the plans whose memory is allocated

avars == <<current, pinned, alive>>

Init ==
  /\ current = NoPlan
  /\ pinned = NoPlan
  /\ alive = {}

Allocate(g) ==
  /\ g \notin alive
  /\ alive' = alive \union {g}
  /\ UNCHANGED <<current, pinned>>

Install(g) ==         \* installations only go forward
  /\ g \in alive
  /\ g > current
  /\ current' = g
  /\ UNCHANGED <<pinned, alive>>

Pin ==
  /\ pinned = NoPlan
  /\ current # NoPlan
  /\ pinned' = current
  /\ UNCHANGED <<current, alive>>

Unpin ==
  /\ pinned # NoPlan
  /\ pinned' = NoPlan
  /\ UNCHANGED <<current, alive>>

Reclaim(S) ==
  /\ S \subseteq alive \ {current, pinned}
  /\ alive' = alive \ S
  /\ UNCHANGED <<current, pinned>>

Teardown ==
  /\ pinned = NoPlan
  /\ current' = NoPlan
  /\ alive' = {}
  /\ UNCHANGED pinned

Next ==
  \/ \E g \in Generation : Allocate(g) \/ Install(g)
  \/ Pin
  \/ Unpin
  \/ \E S \in SUBSET Generation : Reclaim(S)
  \/ Teardown

Spec == Init /\ [][Next]_avars

=============================================================================
