----------------------- MODULE PlanPublisherProofs -----------------------
(***************************************************************************)
(* Theorems of PlanPublisher for every number of generations and every set *)
(* of block sizes.  The argument: generations are installed in increasing  *)
(* order, so what RT holds is never older than what it last acknowledged;  *)
(* a retired plan waits for a generation younger than itself; hence a      *)
(* barrier that was acknowledged belongs to a plan RT no longer holds.     *)
(***************************************************************************)
EXTENDS PlanPublisher, TLAPS

\* The holder is the newest generation and the shared pointer lags behind it
\* only inside publish(), where it leads to a retired plan.
PointerInv ==
  /\ ctl # "destroyed" => active_holder = next_generation
  /\ ctl # "publishing" => active_plan = active_holder
  /\ ctl = "publishing" => active_plan < active_holder
  /\ active_plan # NoPlan => active_plan \in Allocated
  /\ ctl = "destroyed" => active_holder = NoPlan /\ rt = "stopped"

\* RT never runs ahead of the pointer nor behind its own acknowledgements.
OrderInv ==
  /\ ctl # "destroyed" => completed_generation <= active_plan
  /\ ack <= completed_generation
  /\ rt = "rendering" => /\ rt_plan # NoPlan
                         /\ completed_generation <= rt_plan
                         /\ rt_plan <= active_plan
  /\ rt # "rendering" => rt_plan = NoPlan

\* A retired plan waits for a younger generation that was handed out.
BarrierInv ==
  \A r \in retired_plans : /\ r.generation < r.barrier
                           /\ r.barrier <= next_generation

\* The plans RT may pick up are sized for the block size process() admits.
ScratchInv ==
  /\ active_plan # NoPlan => scratch[active_plan] = max_block_size
  /\ active_holder # NoPlan => scratch[active_holder] = max_block_size

IInv ==
  /\ TypeOK
  /\ PointerInv
  /\ OrderInv
  /\ BarrierInv
  /\ ScratchInv
  /\ NoUseAfterFree
  /\ FramesFit

\* The initial states satisfy the inductive invariant.
LEMMA InitIInv == Init => IInv
  BY MaxGenAssumption, BlocksAssumption
  DEF Init, IInv, TypeOK, PointerInv, OrderInv, BarrierInv, ScratchInv,
      NoUseAfterFree, FramesFit, Generation, NoPlan, Allocated, Retired

\* Every step of the control side and of the realtime thread keeps the
\* variables in their types.
LEMMA TypeStep == TypeOK /\ [Next]_vars => TypeOK'
<1> SUFFICES ASSUME TypeOK, [Next]_vars PROVE TypeOK'
  OBVIOUS
<1> USE MaxGenAssumption, BlocksAssumption DEF TypeOK, Generation, NoPlan
<1>1. CASE PublishPrepare
  <2> DEFINE gen == next_generation + 1
  <2>1. gen \in 1 .. MaxGen
    BY <1>1 DEF PublishPrepare
  <2>2. Barrier(gen) \subseteq [generation : 1 .. MaxGen, barrier : 1 .. MaxGen]
    BY <2>1 DEF Barrier
  <2>3. retired_plans' \subseteq [generation : 1 .. MaxGen, barrier : 1 .. MaxGen]
    BY <1>1, <2>2 DEF PublishPrepare
  <2>4. scratch' \in [1 .. MaxGen -> Blocks \union {0}]
    BY <1>1 DEF PublishPrepare
  <2> QED
    BY <1>1, <2>1, <2>3, <2>4 DEF PublishPrepare, rtvars
<1>2. CASE PublishStore
  BY <1>2 DEF PublishStore, rtvars
<1>3. CASE CollectLoad
  BY <1>3 DEF CollectLoad, rtvars
<1>4. CASE CollectErase
  BY <1>4 DEF CollectErase, rtvars
<1>5. ASSUME NEW b \in Blocks, Prepare(b) PROVE TypeOK'
  BY <1>5 DEF Prepare, rtvars
<1>6. CASE Destroy
  BY <1>6 DEF Destroy, rtvars
<1>7. CASE RtStart \/ RtStop
  BY <1>7 DEF RtStart, RtStop, ctlvars
<1>8. ASSUME NEW frames \in Blocks, RtAcquire(frames) PROVE TypeOK'
  BY <1>8 DEF RtAcquire, ctlvars
<1>9. CASE RtAcknowledge
  BY <1>9 DEF RtAcknowledge, ctlvars
<1>10. CASE UNCHANGED vars
  BY <1>10 DEF vars, ctlvars, rtvars
<1> QED
  BY <1>1, <1>2, <1>3, <1>4, <1>5, <1>6, <1>7, <1>8, <1>9, <1>10
  DEF Next, Control, Realtime

\* publish() keeps the invariant while it retires the old plan: the plan RT
\* may hold only moves from the holder to the retired list.
LEMMA PublishPrepareStep == IInv /\ PublishPrepare => IInv'
<1> SUFFICES ASSUME IInv, PublishPrepare PROVE IInv'
  OBVIOUS
<1> DEFINE gen == next_generation + 1
<1> USE MaxGenAssumption, BlocksAssumption DEF Generation, NoPlan
<1>1. TypeOK'
  BY TypeStep DEF IInv, Next, Control
<1>2. /\ active_holder = next_generation
      /\ active_plan = active_holder
      /\ active_holder' = gen
      /\ next_generation' = gen
      /\ gen \in Generation
  BY DEF IInv, TypeOK, PointerInv, PublishPrepare
<1>3. Allocated \subseteq Allocated'
  <2>1. Retired \subseteq Retired'
    BY DEF Retired, PublishPrepare
  <2>2. active_holder # NoPlan => active_holder \in Retired'
    <3> SUFFICES ASSUME active_holder # NoPlan PROVE active_holder \in Retired'
      OBVIOUS
    <3> DEFINE r == [generation |-> active_holder, barrier |-> gen]
    <3>1. r \in retired_plans'
      BY DEF PublishPrepare, Barrier
    <3> QED
      BY <3>1 DEF Retired
  <2> QED
    BY <2>1, <2>2 DEF Allocated
<1>4. PointerInv'
  BY <1>2, <1>3 DEF IInv, TypeOK, PointerInv, PublishPrepare, rtvars
<1>5. OrderInv'
  BY <1>2 DEF IInv, TypeOK, OrderInv, PublishPrepare, rtvars
<1>6. BarrierInv'
  BY <1>2 DEF IInv, TypeOK, BarrierInv, PublishPrepare, Barrier
<1>7. ScratchInv'
  BY <1>2 DEF IInv, TypeOK, ScratchInv, PublishPrepare
<1>8. NoUseAfterFree'
  BY <1>3 DEF IInv, NoUseAfterFree, PublishPrepare, rtvars
<1>9. FramesFit'
  BY <1>2 DEF IInv, TypeOK, OrderInv, FramesFit, PublishPrepare, rtvars
<1> QED
  BY <1>1, <1>4, <1>5, <1>6, <1>7, <1>8, <1>9 DEF IInv

\* collect_retired() frees no plan that RT holds or could pick up.
LEMMA CollectEraseStep == IInv /\ CollectErase => IInv'
<1> SUFFICES ASSUME IInv, CollectErase PROVE IInv'
  OBVIOUS
<1> USE MaxGenAssumption, BlocksAssumption DEF Generation, NoPlan
<1>1. TypeOK'
  BY TypeStep DEF IInv, Next, Control
<1>2. active_plan = active_holder
  BY DEF IInv, PointerInv, CollectErase
<1>3. ASSUME rt = "rendering" PROVE rt_plan \in Allocated'
  <2>1. rt_plan \in Allocated /\ ack <= rt_plan /\ rt_plan # NoPlan
    BY <1>3 DEF IInv, TypeOK, OrderInv, NoUseAfterFree
  <2>2. CASE rt_plan = active_holder
    BY <2>1, <2>2 DEF Allocated, CollectErase
  <2>3. CASE rt_plan # active_holder
    <3>1. PICK r \in retired_plans : r.generation = rt_plan
      BY <2>1, <2>3 DEF Allocated, Retired
    <3>2. r.barrier \in Nat /\ r.generation < r.barrier
      BY DEF IInv, TypeOK, BarrierInv
    <3>3. ~(r.barrier <= ack)
      BY <2>1, <3>1, <3>2 DEF IInv, TypeOK
    <3>4. r \in retired_plans'
      BY <3>3 DEF CollectErase, Reclaimable
    <3> QED
      BY <3>1, <3>4 DEF Allocated, Retired
  <2> QED
    BY <2>2, <2>3
<1>4. PointerInv'
  BY <1>2 DEF IInv, TypeOK, PointerInv, Allocated, CollectErase, rtvars
<1>5. OrderInv'
  BY DEF IInv, TypeOK, OrderInv, CollectErase, rtvars
<1>6. BarrierInv'
  BY DEF IInv, BarrierInv, CollectErase
<1>7. ScratchInv' /\ NoUseAfterFree' /\ FramesFit'
  BY <1>3 DEF IInv, ScratchInv, NoUseAfterFree, FramesFit, CollectErase, rtvars
<1> QED
  BY <1>1, <1>4, <1>5, <1>6, <1>7 DEF IInv

\* The other steps of the control side keep the invariant.
LEMMA ControlStep == IInv /\ Control => IInv'
<1> SUFFICES ASSUME IInv, Control PROVE IInv'
  OBVIOUS
<1> USE MaxGenAssumption, BlocksAssumption DEF Generation, NoPlan
<1> USE DEF PointerInv, OrderInv, BarrierInv, ScratchInv, NoUseAfterFree,
            FramesFit, Allocated, Retired
<1>0. TypeOK /\ TypeOK'
  BY TypeStep DEF IInv, Next
<1>1. CASE PublishStore
  BY <1>0, <1>1 DEF IInv, TypeOK, PublishStore, rtvars
<1>2. CASE CollectLoad
  BY <1>0, <1>2 DEF IInv, TypeOK, CollectLoad, rtvars
<1>3. ASSUME NEW b \in Blocks, Prepare(b) PROVE IInv'
  BY <1>0, <1>3 DEF IInv, TypeOK, Prepare, rtvars
<1>4. CASE Destroy
  BY <1>0, <1>4 DEF IInv, TypeOK, Destroy, rtvars
<1> QED
  BY <1>1, <1>2, <1>3, <1>4, PublishPrepareStep, CollectEraseStep DEF Control

\* The realtime thread keeps the invariant: it pins what the pointer leads
\* to, and acknowledges what it pinned.
LEMMA RealtimeStep == IInv /\ Realtime => IInv'
<1> SUFFICES ASSUME IInv, Realtime PROVE IInv'
  OBVIOUS
<1> USE MaxGenAssumption, BlocksAssumption DEF Generation, NoPlan
<1> USE DEF PointerInv, OrderInv, BarrierInv, ScratchInv, NoUseAfterFree,
            FramesFit, Allocated, Retired
<1>0. TypeOK /\ TypeOK'
  BY TypeStep DEF IInv, Next
<1>1. CASE RtStart \/ RtStop
  BY <1>0, <1>1 DEF IInv, TypeOK, RtStart, RtStop, ctlvars
<1>2. ASSUME NEW frames \in Blocks, RtAcquire(frames) PROVE IInv'
  BY <1>0, <1>2 DEF IInv, TypeOK, RtAcquire, ctlvars
<1>3. CASE RtAcknowledge
  BY <1>0, <1>3 DEF IInv, TypeOK, RtAcknowledge, ctlvars
<1> QED
  BY <1>1, <1>2, <1>3 DEF Realtime

\* The invariant is inductive.
LEMMA NextIInv == IInv /\ [Next]_vars => IInv'
<1>1. IInv /\ UNCHANGED vars => IInv'
  BY DEF IInv, TypeOK, PointerInv, OrderInv, BarrierInv, ScratchInv,
         NoUseAfterFree, FramesFit, Allocated, Retired, Reclaimable,
         vars, ctlvars, rtvars
<1> QED
  BY <1>1, ControlStep, RealtimeStep DEF Next

-----------------------------------------------------------------------------

\* Every reachable state satisfies the inductive invariant.
THEOREM Invariance == Spec => []IInv
  BY InitIInv, NextIInv, PTL DEF Spec

\* Every reachable state is well typed.
THEOREM TypeCorrect == Spec => []TypeOK
<1>1. IInv => TypeOK
  BY DEF IInv
<1> QED
  BY <1>1, Invariance, PTL

\* The realtime thread never renders with a plan that collect_retired freed.
THEOREM PinnedPlanIsAlive == Spec => []NoUseAfterFree
<1>1. IInv => NoUseAfterFree
  BY DEF IInv
<1> QED
  BY <1>1, Invariance, PTL

\* The published pointer never dangles, not even between the retirement of
\* the old plan and the store of the new one.
THEOREM PublishedPointerIsAlive == Spec => []NoDanglingPointer
<1>1. IInv => NoDanglingPointer
  BY DEF IInv, PointerInv, NoDanglingPointer
<1> QED
  BY <1>1, Invariance, PTL

\* A quantum fits the scratch buffers of the plan it renders with.
THEOREM QuantumFitsScratch == Spec => []FramesFit
<1>1. IInv => FramesFit
  BY DEF IInv
<1> QED
  BY <1>1, Invariance, PTL

\* The acknowledged generation never goes back.
THEOREM AcknowledgementsGrow == Spec => CompletedMonotone
<1>1. IInv /\ [Next]_vars => [completed_generation' >= completed_generation]_vars
  <2> SUFFICES ASSUME IInv, Next
               PROVE  completed_generation' >= completed_generation
    OBVIOUS
  <2>1. completed_generation \in Nat /\ rt_plan \in Nat
    BY MaxGenAssumption DEF IInv, TypeOK, Generation, NoPlan
  <2>2. CASE RtAcknowledge
    BY <2>1, <2>2 DEF RtAcknowledge, IInv, OrderInv
  <2>3. CASE ~RtAcknowledge
    <3>1. completed_generation' = completed_generation
      BY <2>3 DEF Next, Control, Realtime, PublishPrepare, PublishStore,
         CollectLoad, CollectErase, Prepare, Destroy, RtStart, RtStop, RtAcquire
    <3> QED
      BY <2>1, <3>1
  <2> QED
    BY <2>2, <2>3
<1> QED
  BY <1>1, Invariance, PTL DEF Spec, CompletedMonotone

-----------------------------------------------------------------------------

\* The protocol implements PlanReclamation: publish() is an allocation and
\* then an installation, collect_retired() reclaims only plans that are
\* neither installed nor pinned, and every other step is a stutter of it.
THEOREM Refinement == Spec => ImplementsReclamation
<1>1. Init => Reclamation!Init
  BY DEF Init, Reclamation!Init, Reclamation!NoPlan, Allocated, Retired, NoPlan
<1>2. IInv /\ IInv' /\ [Next]_vars => [Reclamation!Next]_(Reclamation!avars)
  <2> SUFFICES ASSUME IInv, IInv', [Next]_vars
               PROVE  [Reclamation!Next]_(Reclamation!avars)
    OBVIOUS
  <2> USE DEF Reclamation!NoPlan, NoPlan
  <2>1. CASE PublishPrepare
    <3> DEFINE gen == next_generation + 1
    <3>1. gen \in Generation /\ active_holder' = gen
      BY <2>1 DEF IInv, TypeOK, PublishPrepare, Generation
    <3>2. gen \notin Allocated
      BY <2>1, MaxGenAssumption DEF IInv, TypeOK, PointerInv, BarrierInv,
         Allocated, Retired, PublishPrepare, Generation
    <3>3. Retired' = Allocated
      <4>1. Retired' \subseteq Allocated
        BY <2>1 DEF Retired, Allocated, PublishPrepare, Barrier
      <4>2. Retired \subseteq Retired'
        BY <2>1 DEF Retired, PublishPrepare
      <4>3. ASSUME active_holder # NoPlan PROVE active_holder \in Retired'
        <5> DEFINE r == [generation |-> active_holder, barrier |-> gen]
        <5>1. r \in retired_plans'
          BY <2>1, <4>3 DEF PublishPrepare, Barrier
        <5> QED
          BY <5>1 DEF Retired
      <4> QED
        BY <4>1, <4>2, <4>3 DEF Allocated
    <3>4. Allocated' = Allocated \union {gen}
      BY <3>1, <3>3 DEF Allocated, Generation
    <3>5. Reclamation!Allocate(gen)
      BY <2>1, <3>2, <3>4 DEF Reclamation!Allocate, PublishPrepare, rtvars
    <3> QED
      BY <3>1, <3>5 DEF Reclamation!Next
  <2>2. CASE PublishStore
    <3>1. active_holder \in Generation /\ active_plan < active_holder
      BY <2>2, MaxGenAssumption DEF IInv, TypeOK, PointerInv, PublishStore, Generation
    <3>2. Allocated' = Allocated
      BY <2>2 DEF Allocated, Retired, PublishStore
    <3>3. active_holder > active_plan
      BY <3>1, MaxGenAssumption DEF IInv, TypeOK, Generation
    <3>4. Reclamation!Install(active_holder)
      BY <2>2, <3>1, <3>2, <3>3, MaxGenAssumption
      DEF Reclamation!Install, PublishStore, rtvars, Allocated, Generation
    <3> QED
      BY <3>1, <3>4 DEF Reclamation!Next
  <2>3. CASE CollectErase
    <3> DEFINE S == Allocated \ Allocated'
    <3>1. Allocated' \subseteq Allocated
      BY <2>3 DEF Allocated, Retired, CollectErase
    <3>2. active_plan # NoPlan => active_plan \in Allocated'
      BY <2>3 DEF IInv, PointerInv, CollectErase, Allocated
    <3>3. rt_plan # NoPlan => rt_plan \in Allocated'
      BY <2>3 DEF IInv, OrderInv, NoUseAfterFree, CollectErase, rtvars
    <3>4. Allocated \subseteq Generation
      BY DEF IInv, TypeOK, Allocated, Retired
    <3>5. NoPlan \notin Allocated
      BY <3>4, MaxGenAssumption DEF Generation
    <3>6. active_plan' = active_plan /\ rt_plan' = rt_plan
      BY <2>3 DEF CollectErase, rtvars
    <3>7. S \subseteq Allocated \ {active_plan, rt_plan}
      BY <2>3, <3>2, <3>3, <3>5, <3>6 DEF CollectErase, rtvars
    <3>8. Reclamation!Reclaim(S)
      BY <3>1, <3>6, <3>7 DEF Reclamation!Reclaim
    <3> QED
      BY <3>4, <3>8 DEF Reclamation!Next
  <2>4. CASE Destroy
    <3>1. rt_plan = NoPlan /\ rt_plan' = rt_plan /\ active_plan' = NoPlan
      BY <2>4 DEF IInv, OrderInv, Destroy, rtvars
    <3>2. Allocated' = {}
      BY <2>4 DEF Allocated, Retired, Destroy
    <3>3. Reclamation!Teardown
      BY <3>1, <3>2 DEF Reclamation!Teardown
    <3> QED
      BY <3>3 DEF Reclamation!Next
  <2>5. ASSUME NEW frames \in Blocks, RtAcquire(frames)
        PROVE  Reclamation!Next
    <3>1. rt_plan = NoPlan
      BY <2>5 DEF IInv, OrderInv, RtAcquire
    <3>2. Allocated' = Allocated
      BY <2>5 DEF Allocated, Retired, RtAcquire, ctlvars
    <3>3. Reclamation!Pin
      BY <2>5, <3>1, <3>2 DEF Reclamation!Pin, RtAcquire
    <3> QED
      BY <3>3 DEF Reclamation!Next
  <2>6. CASE RtAcknowledge
    <3>1. rt_plan # NoPlan
      BY <2>6 DEF IInv, OrderInv, RtAcknowledge
    <3>2. Allocated' = Allocated
      BY <2>6 DEF Allocated, Retired, RtAcknowledge, ctlvars
    <3>3. Reclamation!Unpin
      BY <2>6, <3>1, <3>2 DEF Reclamation!Unpin, RtAcknowledge
    <3> QED
      BY <3>3 DEF Reclamation!Next
  <2>7. CASE CollectLoad \/ RtStart \/ RtStop \/ \E b \in Blocks : Prepare(b)
    BY <2>7 DEF CollectLoad, RtStart, RtStop, Prepare, ctlvars, rtvars,
       Reclamation!avars, Allocated, Retired
  <2>8. CASE UNCHANGED vars
    BY <2>8 DEF vars, ctlvars, rtvars, Reclamation!avars, Allocated, Retired
  <2> QED
    BY <2>1, <2>2, <2>3, <2>4, <2>5, <2>6, <2>7, <2>8 DEF Next, Control, Realtime
<1> QED
  BY <1>1, <1>2, Invariance, PTL DEF Spec, ImplementsReclamation, Reclamation!Spec
=============================================================================
