-------------------------- MODULE PlanPublisher --------------------------
(***************************************************************************)
(* The exchange of render plans between the control side and the realtime  *)
(* (RT) audio thread: PlanPublisher, with the calls AudioEngine makes of   *)
(* it from prepare, publish_plan, collect_retired and process.             *)
(*                                                                         *)
(* A PreparedPlan is named by its generation.  The control side is one     *)
(* sequential process here (ctl): the program calls it from one thread,    *)
(* and control_mutex_ guards all of it but the construction of a plan.     *)
(* What the RT thread can interleave with are the two shared atomics,      *)
(* active_plan_ and completed_generation_, and every access to one of them *)
(* by the control side is a step of its own.  All four accesses are        *)
(* release/acquire pairs, so an interleaving of the steps is what the      *)
(* hardware shows.                                                         *)
(***************************************************************************)
EXTENDS Naturals

CONSTANTS
  MaxGen,     \* bound: how many plans are ever published
  Blocks      \* block sizes, in frames, that a host may ask for

ASSUME MaxGenAssumption == MaxGen \in Nat
ASSUME BlocksAssumption == Blocks \subseteq Nat \ {0}

Generation == 1 .. MaxGen
NoPlan == 0                     \* nullptr

VARIABLES
  active_plan,                  \* atomic: the plan RT will pick up next
  completed_generation,         \* atomic: the last generation RT finished
  active_holder,                \* the plan the control side owns as active
  retired_plans,                \* records [generation, barrier]
  next_generation,
  max_block_size,               \* AudioEngine::max_block_size_
  scratch,                      \* frames that each plan's buffers hold
  ctl,                          \* where the control side is in its call
  ack,                          \* collect_retired's local copy
  rt,                           \* where the RT thread is in its quantum
  rt_plan,                      \* process()'s local `current`
  rt_frames                     \* the quantum it renders with that plan

ctlvars == <<active_holder, retired_plans, next_generation, max_block_size,
             scratch, ctl, ack>>
rtvars == <<rt, rt_plan, rt_frames>>
vars == <<active_plan, completed_generation, ctlvars, rtvars>>

Retired == {r.generation : r \in retired_plans}

\* The plans whose memory is not freed: exactly those a unique_ptr owns.
Allocated == ({active_holder} \ {NoPlan}) \union Retired

Init ==
  /\ active_plan = NoPlan
  /\ completed_generation = 0
  /\ active_holder = NoPlan
  /\ retired_plans = {}
  /\ next_generation = 0
  /\ max_block_size \in Blocks
  /\ scratch = [g \in Generation |-> 0]
  /\ ctl = "idle"
  /\ ack = 0
  /\ rt = "stopped"
  /\ rt_plan = NoPlan
  /\ rt_frames = 0

-----------------------------------------------------------------------------
(* The control side *)

\* Two faulty variants: one retires the null plan as well, one nothing.
BarrierUnchecked(gen) == {[generation |-> active_holder, barrier |-> gen]}
BarrierDropped(gen) == {}

\* The plan that a new generation gen replaces, with the barrier it waits for.
Barrier(gen) ==
  IF active_holder = NoPlan THEN {}
  ELSE {[generation |-> active_holder, barrier |-> gen]}

\* A faulty variant: the generation counter wraps.
PublishPrepareWrapping ==
  LET gen == (next_generation % 3) + 1 IN
  /\ ctl = "idle"
  /\ next_generation' = gen
  /\ scratch' = [scratch EXCEPT ![gen] = max_block_size]
  /\ retired_plans' = retired_plans \union Barrier(gen)
  /\ active_holder' = gen
  /\ ctl' = "publishing"
  /\ UNCHANGED <<active_plan, completed_generation, max_block_size, ack, rtvars>>

\* publish(), up to the store: build the plan, take the lock, number it,
\* retire the old active plan, own the new one.
PublishPrepare ==
  LET gen == next_generation + 1 IN
  /\ ctl = "idle"
  /\ next_generation < MaxGen
  /\ next_generation' = gen
  /\ scratch' = [scratch EXCEPT ![gen] = max_block_size]
  /\ retired_plans' = retired_plans \union Barrier(gen)
  /\ active_holder' = gen
  /\ ctl' = "publishing"
  /\ UNCHANGED <<active_plan, completed_generation, max_block_size, ack, rtvars>>

\* publish(): the release-store, and the return that unlocks.
PublishStore ==
  /\ ctl = "publishing"
  /\ active_plan' = active_holder
  /\ ctl' = "idle"
  /\ UNCHANGED <<completed_generation, active_holder, retired_plans,
                 next_generation, max_block_size, scratch, ack, rtvars>>

\* collect_retired(): the acquire-load.
CollectLoad ==
  /\ ctl = "idle"
  /\ ack' = completed_generation
  /\ ctl' = "collecting"
  /\ UNCHANGED <<active_plan, completed_generation, active_holder,
                 retired_plans, next_generation, max_block_size, scratch, rtvars>>

\* Two faulty variants: the acknowledgement is read one too high, or too low.
ReclaimableEarly(a) == {r \in retired_plans : r.barrier <= a + 1}
ReclaimableLate(a) == {r \in retired_plans : r.barrier < a}

\* The retired plans that an acknowledgement of generation a sets free.
Reclaimable(a) == {r \in retired_plans : r.barrier <= a}

\* collect_retired(): the loop that erases, and the return that unlocks.
CollectErase ==
  /\ ctl = "collecting"
  /\ retired_plans' = retired_plans \ Reclaimable(ack)
  /\ ack' = 0
  /\ ctl' = "idle"
  /\ UNCHANGED <<active_plan, completed_generation, active_holder,
                 next_generation, max_block_size, scratch, rtvars>>

\* A faulty variant: the buffers of the active plan keep their size.
PrepareSizeOnly(b) ==
  /\ ctl = "idle"
  /\ rt = "stopped"
  /\ max_block_size' = b
  /\ UNCHANGED <<active_plan, completed_generation, active_holder, scratch,
                 retired_plans, next_generation, ctl, ack, rtvars>>

\* AudioEngine::prepare(b).  Its contract keeps it "outside the realtime path".
Prepare(b) ==
  /\ ctl = "idle"
  /\ rt = "stopped"
  /\ max_block_size' = b
  /\ scratch' = IF active_holder = NoPlan THEN scratch
                ELSE [scratch EXCEPT ![active_holder] = b]
  /\ UNCHANGED <<active_plan, completed_generation, active_holder,
                 retired_plans, next_generation, ctl, ack, rtvars>>

\* A faulty variant: the callback still runs.
DestroyRunning ==
  /\ ctl = "idle"
  /\ active_plan' = NoPlan
  /\ active_holder' = NoPlan
  /\ retired_plans' = {}
  /\ ctl' = "destroyed"
  /\ UNCHANGED <<completed_generation, next_generation, max_block_size,
                 scratch, ack, rtvars>>

\* ~PlanPublisher(): "Realtime callback must already be stopped".
Destroy ==
  /\ ctl = "idle"
  /\ rt = "stopped"
  /\ active_plan' = NoPlan
  /\ active_holder' = NoPlan
  /\ retired_plans' = {}
  /\ ctl' = "destroyed"
  /\ UNCHANGED <<completed_generation, next_generation, max_block_size,
                 scratch, ack, rtvars>>

-----------------------------------------------------------------------------
(* The realtime thread *)

\* The endpoint starts and stops calling process(); a stop waits for the
\* quantum that is being rendered.
RtStart ==
  /\ rt = "stopped"
  /\ ctl # "destroyed"
  /\ rt' = "idle"
  /\ UNCHANGED <<active_plan, completed_generation, ctlvars, rt_plan, rt_frames>>

RtStop ==
  /\ rt = "idle"
  /\ rt' = "stopped"
  /\ UNCHANGED <<active_plan, completed_generation, ctlvars, rt_plan, rt_frames>>

\* process(): frames outside 1..max_block_size_ and a null plan return at
\* once and change nothing here; otherwise the plan is pinned for the quantum.
RtAcquire(frames) ==
  /\ rt = "idle"
  /\ frames <= max_block_size
  /\ active_plan # NoPlan
  /\ rt_plan' = active_plan
  /\ rt_frames' = frames
  /\ rt' = "rendering"
  /\ UNCHANGED <<active_plan, completed_generation, ctlvars>>

\* process(): acknowledge_completed_generation(current->generation), after
\* which the quantum reads the plan no more.
RtAcknowledge ==
  /\ rt = "rendering"
  /\ completed_generation' = rt_plan
  /\ rt_plan' = NoPlan
  /\ rt_frames' = 0
  /\ rt' = "idle"
  /\ UNCHANGED <<active_plan, ctlvars>>

-----------------------------------------------------------------------------

Control ==
  \/ PublishPrepare
  \/ PublishStore
  \/ CollectLoad
  \/ CollectErase
  \/ \E b \in Blocks : Prepare(b)
  \/ Destroy

Realtime ==
  \/ RtStart
  \/ RtStop
  \/ \E frames \in Blocks : RtAcquire(frames)
  \/ RtAcknowledge

Next == Control \/ Realtime

Spec == Init /\ [][Next]_vars

\* A call that has begun returns, a quantum that has begun ends and another
\* follows while the endpoint runs, and the user interface's timer keeps
\* calling collect_retired (EditorController::onTimerTick).
Fairness ==
  /\ WF_vars(PublishStore)
  /\ WF_vars(CollectErase)
  /\ WF_vars(CollectLoad)
  /\ WF_vars(\E frames \in Blocks : RtAcquire(frames))
  /\ WF_vars(RtAcknowledge)

FairSpec == Spec /\ Fairness

-----------------------------------------------------------------------------
(* Properties *)

TypeOK ==
  /\ active_plan \in Generation \union {NoPlan}
  /\ completed_generation \in Generation \union {0}
  /\ active_holder \in Generation \union {NoPlan}
  /\ retired_plans \subseteq [generation : Generation, barrier : Generation]
  /\ next_generation \in 0 .. MaxGen
  /\ max_block_size \in Blocks
  /\ scratch \in [Generation -> Blocks \union {0}]
  /\ ctl \in {"idle", "publishing", "collecting", "destroyed"}
  /\ ack \in Generation \union {0}
  /\ rt \in {"stopped", "idle", "rendering"}
  /\ rt_plan \in Generation \union {NoPlan}
  /\ rt_frames \in Blocks \union {0}

\* The plan a quantum renders with is not freed before the quantum ends,
\* however many plans are published and collected meanwhile
\* (docs/architecture.md:119 "guaranteed alive throughout the quantum").
NoUseAfterFree == rt = "rendering" => rt_plan \in Allocated

\* The pointer a quantum may load at any instant, also in the middle of a
\* publish(), leads to memory that is not freed.
NoDanglingPointer == active_plan # NoPlan => active_plan \in Allocated

\* A quantum never asks for more frames than the scratch buffers of the plan
\* it holds were sized for: the check of process() against max_block_size_
\* must speak for the plan it picks up afterwards.
FramesFit == rt = "rendering" => rt_frames <= scratch[rt_plan]

\* completed_generation_ is stored, not maximised, and read as "the highest
\* generation completed": it must never go back.
CompletedMonotone == [][completed_generation' >= completed_generation]_vars

\* As long as quanta run, a retired plan is reclaimed in the end, also one
\* whose successor no quantum ever picked up.
EventuallyReclaimed ==
  <>[](rt # "stopped") =>
    \A g \in Generation : (g \in Retired) ~> (g \notin Retired)

\* The protocol keeps the promise of PlanReclamation.
Reclamation == INSTANCE PlanReclamation WITH
  current <- active_plan,
  pinned  <- rt_plan,
  alive   <- Allocated

ImplementsReclamation == Reclamation!Spec

=============================================================================
