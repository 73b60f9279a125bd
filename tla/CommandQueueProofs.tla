------------------------- MODULE CommandQueueProofs -------------------------
(***************************************************************************)
(* Proofs about CommandQueue for any lanes, any commands (also infinitely  *)
(* many) and any caps.  The inductive invariant IInv adds to the safety    *)
(* invariants what ties a lane's queue to the phases of the commands: the  *)
(* queue of a lane holds exactly its commands in phase "queued", in the    *)
(* order of their arrival numbers, and its slots are finitely many.        *)
(*                                                                         *)
(* Almost every operation changes one lane and ends in drainLane.  So the  *)
(* parts of the invariant take the lanes, the phases, the generations and  *)
(* the arrival numbers as arguments: an action is shown to leave them      *)
(* sound for the arguments it hands to DrainLanes, and DrainLanesKeeps     *)
(* carries them over to the next state.                                    *)
(***************************************************************************)
EXTENDS CommandQueue, LaneOpsProofs

-----------------------------------------------------------------------------
(* The queue.                                                              *)

ProperLanes(ls) ==
  /\ ls \in [Lanes -> LaneState(Tasks)]
  /\ \A l \in Lanes : IsFiniteSet(ls[l].active)

\* A lane's queue holds the lane's waiting commands, and only these.
QueueHoldsQueued(ls, ph) ==
  /\ \A l \in Lanes : \A i \in 1 .. Len(ls[l].queue) :
       LaneOf[ls[l].queue[i]] = l /\ ph[ls[l].queue[i]] = "queued"
  /\ \A t \in Tasks : ph[t] = "queued" => t \in Queued(ls[LaneOf[t]])

QueueSorted(ls, at) ==
  \A l \in Lanes : \A i, j \in 1 .. Len(ls[l].queue) :
    i < j => at[ls[l].queue[i]] < at[ls[l].queue[j]]

SlotsExactIn(ls, ph, tg) ==
  \A l \in Lanes :
    ls[l].active = { t \in Tasks : /\ LaneOf[t] = l
                                   /\ ph[t] = "running"
                                   /\ tg[t] = ls[l].generation }

NoSlotWasted(l, ls) ==
  ls[l].queue # << >> => Cardinality(ls[l].active) >= ls[l].maxConcurrent

FifoIn(ph, at) ==
  \A t, u \in Tasks :
    /\ LaneOf[t] = LaneOf[u]
    /\ ph[t] \in {"running"} \cup Finished
    /\ ph[u] = "queued"
    => at[t] < at[u]

GenerationsPast(ls, tg) == \A t \in Tasks : tg[t] <= ls[LaneOf[t]].generation

\* What an operation must leave sound before it drains lanes.
Sound(ls, ph, tg, at) ==
  /\ ProperLanes(ls)
  /\ ph \in [Tasks -> Phases] /\ tg \in [Tasks -> Nat] /\ at \in [Tasks -> Nat]
  /\ QueueHoldsQueued(ls, ph)
  /\ QueueSorted(ls, at)
  /\ SlotsExactIn(ls, ph, tg)
  /\ FifoIn(ph, at)
  /\ GenerationsPast(ls, tg)

\* Arrival numbers come from the counter; a command not yet seen has none.
Numbered ==
  \A t \in Tasks : enqueuedAt[t] <= now /\ (phase[t] = "idle" => enqueuedAt[t] = 0)

\* What a waiter found active had been started.
SnapshotStarted == \A t \in waiter.activeAtStart : phase[t] \in {"running"} \cup Finished

IInv ==
  /\ TypeOK
  /\ Sound(lanes, phase, taskGeneration, enqueuedAt)
  /\ \A l \in Lanes : NoSlotWasted(l, lanes)
  /\ Numbered
  /\ SnapshotStarted
  /\ DrainedIsTrue

\* No command is started beyond the cap.
StartsAreWithinCap ==
  \A l \in Lanes :
    (\E t \in Tasks : LaneOf[t] = l /\ phase[t] # "running" /\ phase'[t] = "running")
      => Cardinality(lanes'[l].active) <= lanes'[l].maxConcurrent

\* Commands move along the edges of their life and keep their numbers.
EdgesAreKept ==
  \A t \in Tasks : Lifecycle!MayBecome(phase[t], phase'[t]) /\ Lifecycle!NumbersArrival(t)

\* What is shown of every step: where it leads, and how it gets there.
StepIsProper == IInv' /\ StartsAreWithinCap /\ EdgesAreKept

-----------------------------------------------------------------------------
\* In a sound state no entry is queued twice, and none is running already.
LEMMA QueuesAreClean ==
  ASSUME NEW ls, NEW ph, NEW tg, NEW at, Sound(ls, ph, tg, at), NEW l \in Lanes
  PROVE  /\ ProperLane(ls[l], Tasks)
         /\ NoRepetition(ls[l].queue)
         /\ Queued(ls[l]) \cap ls[l].active = {}
<1>1. ProperLane(ls[l], Tasks)
  BY DEF Sound, ProperLanes, ProperLane
<1>2. NoRepetition(ls[l].queue)
  <2>1. SUFFICES ASSUME NEW i \in 1 .. Len(ls[l].queue), NEW j \in 1 .. Len(ls[l].queue),
                        ls[l].queue[i] = ls[l].queue[j], i # j
                 PROVE  FALSE
    BY DEF NoRepetition
  <2>2. Len(ls[l].queue) \in Nat /\ ls[l].queue[i] \in Tasks
    BY <1>1, LenProperties, ElementOfSeq DEF ProperLane, LaneState
  <2>3. at[ls[l].queue[i]] \in Nat
    BY <2>2 DEF Sound
  <2>4. i < j \/ j < i
    BY <2>1, <2>2
  <2>5. at[ls[l].queue[i]] < at[ls[l].queue[j]] \/ at[ls[l].queue[j]] < at[ls[l].queue[i]]
    BY <2>4 DEF Sound, QueueSorted
  <2> QED
    BY <2>1, <2>3, <2>5
<1>3. Queued(ls[l]) \cap ls[l].active = {}
  BY DEF Sound, QueueHoldsQueued, SlotsExactIn, Queued
<1> QED
  BY <1>1, <1>2, <1>3

\* The commands that drainLane starts are heads of their own lane's queue, and
\* were waiting.
LEMMA StartedAreHeads ==
  ASSUME NEW ls, NEW ph, NEW tg, NEW at, Sound(ls, ph, tg, at), NEW L \in SUBSET Lanes
  PROVE  \A t \in Tasks :
           /\ t \in StartedIn(L, ls) <=> LaneOf[t] \in L /\ t \in Pumped(ls[LaneOf[t]])
           /\ t \in StartedIn(L, ls) => ph[t] = "queued"
<1>1. \A l \in Lanes : Pumped(ls[l]) \subseteq Queued(ls[l])
  BY QueuesAreClean, PumpedIsFinite
<1>2. \A l \in Lanes : \A t \in Queued(ls[l]) : LaneOf[t] = l /\ ph[t] = "queued"
  BY DEF Sound, QueueHoldsQueued, Queued
<1> QED
  BY <1>1, <1>2, LaneOfAssumption DEF StartedIn

\* The next state after drainLane, seen from one lane and from one command.
LEMMA DrainLanesEffect ==
  ASSUME NEW STATE ls, NEW STATE ph, NEW ACTION at, NEW L \in SUBSET Lanes,
         Sound(ls, ph, taskGeneration, at), DrainLanes(L, ls, ph)
  PROVE  /\ \A l \in Lanes : /\ l \in L => lanes'[l] = Pump(ls[l])
                             /\ l \notin L => lanes'[l] = ls[l]
                             /\ lanes'[l].generation = ls[l].generation
                             /\ lanes'[l].maxConcurrent = ls[l].maxConcurrent
         /\ \A t \in Tasks :
              \/ /\ LaneOf[t] \in L
                 /\ t \in Pumped(ls[LaneOf[t]])
                 /\ ph[t] = "queued" /\ phase'[t] = "running"
                 /\ taskGeneration'[t] = ls[LaneOf[t]].generation
              \/ /\ LaneOf[t] \in L => t \notin Pumped(ls[LaneOf[t]])
                 /\ phase'[t] = ph[t]
                 /\ taskGeneration'[t] = taskGeneration[t]
<1>1. \A l \in Lanes : /\ Pump(ls[l]).generation = ls[l].generation
                       /\ Pump(ls[l]).maxConcurrent = ls[l].maxConcurrent
  BY QueuesAreClean, PumpFields
<1>2. \A l \in Lanes : lanes'[l] = IF l \in L THEN Pump(ls[l]) ELSE ls[l]
  BY DEF DrainLanes
<1>3. \A t \in Tasks :
        /\ phase'[t] = IF t \in StartedIn(L, ls) THEN "running" ELSE ph[t]
        /\ taskGeneration'[t] = IF t \in StartedIn(L, ls) THEN ls[LaneOf[t]].generation
                                                          ELSE taskGeneration[t]
  BY DEF DrainLanes
<1> QED
  BY <1>1, <1>2, <1>3, StartedAreHeads, LaneOfAssumption

\* Draining lanes keeps a sound state sound.
LEMMA DrainLanesKeeps ==
  ASSUME NEW STATE ls, NEW STATE ph, NEW ACTION at, NEW L \in SUBSET Lanes,
         Sound(ls, ph, taskGeneration, at), DrainLanes(L, ls, ph)
  PROVE  Sound(lanes', phase', taskGeneration', at)
<1>0. \A t \in Tasks : LaneOf[t] \in Lanes
  BY LaneOfAssumption
<1>1. ProperLanes(lanes')
  <2>1. \A l \in Lanes : ProperLane(Pump(ls[l]), Tasks)
    BY QueuesAreClean, PumpKeepsProper
  <2>2. lanes' = [l \in Lanes |-> IF l \in L THEN Pump(ls[l]) ELSE ls[l]]
    BY DEF DrainLanes
  <2> QED
    BY <2>1, <2>2 DEF ProperLanes, ProperLane, Sound
<1>2. phase' \in [Tasks -> Phases] /\ taskGeneration' \in [Tasks -> Nat]
  <2>1. \A t \in Tasks : ls[LaneOf[t]].generation \in Nat
    BY <1>0 DEF Sound, ProperLanes, LaneState
  <2>2. \A t \in Tasks :
          /\ (IF t \in StartedIn(L, ls) THEN "running" ELSE ph[t]) \in Phases
          /\ (IF t \in StartedIn(L, ls) THEN ls[LaneOf[t]].generation
                                        ELSE taskGeneration[t]) \in Nat
    BY <2>1 DEF Sound, Phases
  <2> QED
    BY <2>2 DEF DrainLanes
<1>3. \* An entry of the new queue is one of the old queue that was not started.
      \A l \in Lanes : \A i \in 1 .. Len(lanes'[l].queue) :
        \E k \in Nat :
          /\ k + i \in 1 .. Len(ls[l].queue)
          /\ lanes'[l].queue[i] = ls[l].queue[k + i]
          /\ l \in L => k = PumpCount(ls[l])
          /\ l \notin L => k = 0
  <2>1. TAKE l \in Lanes
  <2>2. TAKE i \in 1 .. Len(lanes'[l].queue)
  <2>3. ProperLane(ls[l], Tasks) /\ Len(ls[l].queue) \in Nat
    BY QueuesAreClean, LenProperties DEF ProperLane, LaneState
  <2>4. CASE l \in L
    <3>1. lanes'[l] = Pump(ls[l])
      BY <2>4, DrainLanesEffect
    <3>2. PumpCount(ls[l]) \in 0 .. Len(ls[l].queue)
      BY <2>3, PumpCountBounds
    <3>3. /\ Len(Pump(ls[l]).queue) = Len(ls[l].queue) - PumpCount(ls[l])
          /\ \A j \in 1 .. Len(Pump(ls[l]).queue) :
               Pump(ls[l]).queue[j] = ls[l].queue[PumpCount(ls[l]) + j]
      BY <2>3, PumpQueue
    <3> QED
      BY <2>2, <2>3, <2>4, <3>1, <3>2, <3>3
  <2>5. CASE l \notin L
    <3>1. lanes'[l] = ls[l]
      BY <2>5, DrainLanesEffect
    <3> QED
      BY <2>2, <2>3, <2>5, <3>1
  <2> QED
    BY <2>4, <2>5
<1>4. QueueSorted(lanes', at)
  <2>1. SUFFICES ASSUME NEW l \in Lanes,
                        NEW i \in 1 .. Len(lanes'[l].queue), NEW j \in 1 .. Len(lanes'[l].queue),
                        i < j
                 PROVE  at[lanes'[l].queue[i]] < at[lanes'[l].queue[j]]
    BY DEF QueueSorted
  <2>2. PICK k \in Nat : /\ k + i \in 1 .. Len(ls[l].queue)
                         /\ lanes'[l].queue[i] = ls[l].queue[k + i]
                         /\ l \in L => k = PumpCount(ls[l])
                         /\ l \notin L => k = 0
    BY <1>3
  <2>3. /\ k + j \in 1 .. Len(ls[l].queue)
        /\ lanes'[l].queue[j] = ls[l].queue[k + j]
    <3>1. PICK m \in Nat : /\ m + j \in 1 .. Len(ls[l].queue)
                           /\ lanes'[l].queue[j] = ls[l].queue[m + j]
                           /\ l \in L => m = PumpCount(ls[l])
                           /\ l \notin L => m = 0
      BY <1>3
    <3>2. m = k
      BY ONLY <2>2, <3>1
    <3> QED
      BY ONLY <3>1, <3>2
  <2>4. k + i < k + j
    BY <2>1, <2>2
  <2>5. QueueSorted(ls, at)
    BY DEF Sound
  <2>6. at[ls[l].queue[k + i]] < at[ls[l].queue[k + j]]
    BY ONLY <2>2, <2>3, <2>4, <2>5 DEF QueueSorted
  <2> QED
    BY <2>2, <2>3, <2>6
<1>5. \* Where a waiting command of the old state is, and when it is started.
      \A l \in Lanes : \A p \in 1 .. Len(ls[l].queue) :
        LET t == ls[l].queue[p]
        IN  /\ t \in Tasks /\ LaneOf[t] = l /\ ph[t] = "queued"
            /\ l \in L => (t \in Pumped(ls[l]) <=> p <= PumpCount(ls[l]))
  <2>1. TAKE l \in Lanes
  <2>2. TAKE p \in 1 .. Len(ls[l].queue)
  <2>3. ProperLane(ls[l], Tasks) /\ NoRepetition(ls[l].queue)
    BY QueuesAreClean
  <2>4. PumpCount(ls[l]) \in 0 .. Len(ls[l].queue) /\ Len(ls[l].queue) \in Nat
    BY <2>3, PumpCountBounds, LenProperties DEF ProperLane, LaneState
  <2>5. ls[l].queue[p] \in Pumped(ls[l]) <=> p <= PumpCount(ls[l])
    BY <2>2, <2>3, <2>4 DEF Pumped, NoRepetition
  <2>6. ls[l].queue[p] \in Tasks
    BY <2>3, ElementOfSeq DEF ProperLane, LaneState
  <2> QED
    BY <2>5, <2>6 DEF Sound, QueueHoldsQueued
<1>6. QueueHoldsQueued(lanes', phase')
  <2>1. ASSUME NEW l \in Lanes, NEW i \in 1 .. Len(lanes'[l].queue)
        PROVE  LaneOf[lanes'[l].queue[i]] = l /\ phase'[lanes'[l].queue[i]] = "queued"
    <3>1. PICK k \in Nat : /\ k + i \in 1 .. Len(ls[l].queue)
                           /\ lanes'[l].queue[i] = ls[l].queue[k + i]
                           /\ l \in L => k = PumpCount(ls[l])
                           /\ l \notin L => k = 0
      BY <1>3
    <3> DEFINE t == lanes'[l].queue[i]
    <3>2. i \in Nat /\ i > 0
      OBVIOUS
    <3>3. t \in Tasks /\ LaneOf[t] = l /\ ph[t] = "queued"
      BY <1>5, <3>1
    <3>4. l \in L => t \notin Pumped(ls[l])
      BY <1>5, <3>1, <3>2
    <3> QED
      BY <3>3, <3>4, DrainLanesEffect
  <2>2. ASSUME NEW t \in Tasks, phase'[t] = "queued"
        PROVE  t \in Queued(lanes'[LaneOf[t]])
    <3> DEFINE l == LaneOf[t]
    <3>1. l \in Lanes /\ ph[t] = "queued" /\ (l \in L => t \notin Pumped(ls[l]))
      BY <1>0, <2>2, DrainLanesEffect
    <3>2. PICK p \in 1 .. Len(ls[l].queue) : ls[l].queue[p] = t
      BY <3>1 DEF Sound, QueueHoldsQueued, Queued
    <3>3. CASE l \notin L
      BY <3>1, <3>2, <3>3, DrainLanesEffect DEF Queued
    <3>4. CASE l \in L
      <4>1. p > PumpCount(ls[l])
        <5>1. ProperLane(ls[l], Tasks)
          BY <3>1, QueuesAreClean
        <5>2. PumpCount(ls[l]) \in 0 .. Len(ls[l].queue) /\ Len(ls[l].queue) \in Nat
          BY <5>1, PumpCountBounds, LenProperties DEF ProperLane, LaneState
        <5> QED
          BY <1>5, <3>1, <3>2, <3>4, <5>2
      <4>2. lanes'[l] = Pump(ls[l])
        BY <3>1, <3>4, DrainLanesEffect
      <4>3. /\ PumpCount(ls[l]) \in 0 .. Len(ls[l].queue)
            /\ Len(ls[l].queue) \in Nat
            /\ Len(Pump(ls[l]).queue) = Len(ls[l].queue) - PumpCount(ls[l])
            /\ \A j \in 1 .. Len(Pump(ls[l]).queue) :
                 Pump(ls[l]).queue[j] = ls[l].queue[PumpCount(ls[l]) + j]
        <5>1. ProperLane(ls[l], Tasks)
          BY <3>1, QueuesAreClean
        <5> QED
          BY <5>1, PumpCountBounds, PumpQueue, LenProperties DEF ProperLane, LaneState
      <4>4. p - PumpCount(ls[l]) \in 1 .. Len(Pump(ls[l]).queue)
        BY <3>2, <4>1, <4>3
      <4>5. Pump(ls[l]).queue[p - PumpCount(ls[l])] = t
        <5>1. PumpCount(ls[l]) + (p - PumpCount(ls[l])) = p
          BY <4>3
        <5> QED
          BY <3>2, <4>3, <4>4, <5>1
      <4> QED
        BY <4>2, <4>4, <4>5 DEF Queued
    <3> QED
      BY <3>3, <3>4
  <2> QED
    BY <2>1, <2>2 DEF QueueHoldsQueued
<1>7. SlotsExactIn(lanes', phase', taskGeneration')
  <2>1. SUFFICES ASSUME NEW l \in Lanes
                 PROVE  lanes'[l].active =
                          { t \in Tasks : /\ LaneOf[t] = l
                                          /\ phase'[t] = "running"
                                          /\ taskGeneration'[t] = lanes'[l].generation }
    BY DEF SlotsExactIn
  <2>2. ls[l].active = { t \in Tasks : /\ LaneOf[t] = l
                                       /\ ph[t] = "running"
                                       /\ taskGeneration[t] = ls[l].generation }
    BY DEF Sound, SlotsExactIn
  <2>3. lanes'[l].active = ls[l].active \cup (IF l \in L THEN Pumped(ls[l]) ELSE {})
    BY QueuesAreClean, PumpFields, DrainLanesEffect
  <2>4. ASSUME NEW t \in Pumped(ls[l])
        PROVE  t \in Tasks /\ LaneOf[t] = l /\ ph[t] = "queued"
    <3>1. t \in Queued(ls[l])
      BY QueuesAreClean, PumpedIsFinite
    <3> QED
      BY <1>5, <3>1 DEF Queued
  <2>5. ASSUME NEW t \in Tasks
        PROVE  t \in lanes'[l].active <=>
                 LaneOf[t] = l /\ phase'[t] = "running"
                               /\ taskGeneration'[t] = lanes'[l].generation
    <3>1. CASE LaneOf[t] # l
      BY <2>2, <2>3, <2>4, <3>1
    <3>2. CASE LaneOf[t] = l /\ l \in L /\ t \in Pumped(ls[l])
      BY <2>3, <3>2, DrainLanesEffect
    <3>3. CASE LaneOf[t] = l /\ ~(l \in L /\ t \in Pumped(ls[l]))
      BY <2>2, <2>3, <3>3, DrainLanesEffect
    <3> QED
      BY <3>1, <3>2, <3>3
  <2>6. lanes'[l].active \subseteq Tasks
    BY <2>2, <2>3, <2>4
  <2> QED
    BY <2>5, <2>6
<1>8. FifoIn(phase', at)
  <2>1. SUFFICES ASSUME NEW t \in Tasks, NEW u \in Tasks, LaneOf[t] = LaneOf[u],
                        phase'[t] \in {"running"} \cup Finished, phase'[u] = "queued"
                 PROVE  at[t] < at[u]
    BY DEF FifoIn
  <2> DEFINE l == LaneOf[u]
  <2>2. l \in Lanes /\ ph[u] = "queued" /\ (l \in L => u \notin Pumped(ls[l]))
    BY <1>0, <2>1, DrainLanesEffect
  <2>3. CASE phase'[t] = ph[t]
    BY <2>1, <2>2, <2>3 DEF Sound, FifoIn
  <2>4. CASE l \in L /\ t \in Pumped(ls[l])
    <3>1. PICK p \in 1 .. Len(ls[l].queue) : ls[l].queue[p] = u
      BY <2>2 DEF Sound, QueueHoldsQueued, Queued
    <3>2. PICK q \in 1 .. PumpCount(ls[l]) : ls[l].queue[q] = t
      BY <2>4 DEF Pumped
    <3>3. PumpCount(ls[l]) \in 0 .. Len(ls[l].queue) /\ Len(ls[l].queue) \in Nat
      BY <2>2, QueuesAreClean, PumpCountBounds, LenProperties DEF ProperLane, LaneState
    <3>4. ~(p <= PumpCount(ls[l]))
      BY <1>5, <2>2, <2>4, <3>1
    <3>5. q < p /\ q \in 1 .. Len(ls[l].queue)
      BY <3>2, <3>3, <3>4
    <3> QED
      BY <2>2, <3>1, <3>2, <3>5 DEF Sound, QueueSorted
  <2> QED
    BY <2>1, <2>3, <2>4, DrainLanesEffect
<1>9. GenerationsPast(lanes', taskGeneration')
  <2>1. \A t \in Tasks : ls[LaneOf[t]].generation \in Nat
    BY <1>0 DEF Sound, ProperLanes, LaneState
  <2> QED
    BY <1>0, <2>1, DrainLanesEffect DEF GenerationsPast, Sound
<1> QED
  BY <1>1, <1>2, <1>4, <1>6, <1>7, <1>8, <1>9 DEF Sound

\* A lane that was drained, or wasted no slot before, wastes none afterwards.
LEMMA DrainLanesWakes ==
  ASSUME NEW STATE ls, NEW STATE ph, NEW ACTION at, NEW L \in SUBSET Lanes,
         Sound(ls, ph, taskGeneration, at), DrainLanes(L, ls, ph),
         \A l \in Lanes \ L : NoSlotWasted(l, ls)
  PROVE  \A l \in Lanes : NoSlotWasted(l, lanes')
<1>1. TAKE l \in Lanes
<1>2. CASE l \in L
  <2>1. lanes'[l] = Pump(ls[l])
    BY <1>2, DrainLanesEffect
  <2>2. /\ ProperLane(ls[l], Tasks)
        /\ NoRepetition(ls[l].queue)
        /\ Queued(ls[l]) \cap ls[l].active = {}
    BY QueuesAreClean
  <2> QED
    BY <2>1, <2>2, PumpUsesSlots DEF NoSlotWasted
<1>3. CASE l \notin L
  BY <1>3, DrainLanesEffect DEF NoSlotWasted
<1> QED
  BY <1>2, <1>3

\* A command that a waiter saw running stays one that was started, as long as
\* phases go forward, generations do not go back, and a started command keeps its
\* generation.
LEMMA SnapshotKeeps ==
  ASSUME IInv, waiter' = waiter,
         \A t \in Tasks : phase[t] \in {"running"} \cup Finished =>
           /\ phase'[t] \in {"running"} \cup Finished
           /\ phase[t] \in Finished => phase'[t] \in Finished
           /\ taskGeneration'[t] = taskGeneration[t],
         \A l \in Lanes : lanes'[l].generation \in Nat /\ lanes'[l].generation >= lanes[l].generation
  PROVE  SnapshotStarted' /\ DrainedIsTrue'
<1>1. waiter.activeAtStart \subseteq Tasks
  BY DEF IInv, TypeOK
<1>2. SnapshotStarted'
  BY <1>1 DEF IInv, SnapshotStarted
<1>3. DrainedIsTrue'
  <2>1. SUFFICES ASSUME waiter.state = "drained", NEW t \in waiter.activeAtStart
                 PROVE  \/ phase'[t] \in Finished
                        \/ taskGeneration'[t] < lanes'[LaneOf[t]].generation
    BY DEF DrainedIsTrue
  <2>2. t \in Tasks /\ LaneOf[t] \in Lanes
    BY <1>1, <2>1, LaneOfAssumption
  <2>3. phase[t] \in {"running"} \cup Finished
    BY <2>1 DEF IInv, SnapshotStarted
  <2>4. phase[t] \in Finished \/ taskGeneration[t] < lanes[LaneOf[t]].generation
    BY <2>1 DEF IInv, DrainedIsTrue
  <2>5. taskGeneration[t] \in Nat /\ lanes[LaneOf[t]].generation \in Nat
    BY <2>2 DEF IInv, TypeOK, LaneState
  <2> QED
    BY <2>2, <2>3, <2>4, <2>5
<1> QED
  BY <1>2, <1>3

\* What a drain does to commands that were started before it.
LEMMA DrainLanesSpares ==
  ASSUME NEW STATE ls, NEW STATE ph, NEW ACTION at, NEW L \in SUBSET Lanes,
         Sound(ls, ph, taskGeneration, at), DrainLanes(L, ls, ph)
  PROVE  /\ \A t \in Tasks : ph[t] # "queued" =>
              phase'[t] = ph[t] /\ taskGeneration'[t] = taskGeneration[t]
         /\ \A t \in Tasks : ph[t] = "queued" => phase'[t] \in {"queued", "running"}
BY DrainLanesEffect

\* A drain starts a command only within the cap of its lane.
LEMMA DrainLanesWithinCap ==
  ASSUME NEW STATE ls, NEW STATE ph, NEW ACTION at, NEW L \in SUBSET Lanes,
         Sound(ls, ph, taskGeneration, at), DrainLanes(L, ls, ph),
         \A t \in Tasks : ph[t] = "running" => phase[t] = "running"
  PROVE  StartsAreWithinCap
<1>1. SUFFICES ASSUME NEW t \in Tasks, phase[t] # "running", phase'[t] = "running"
               PROVE  Cardinality(lanes'[LaneOf[t]].active) <= lanes'[LaneOf[t]].maxConcurrent
  BY DEF StartsAreWithinCap
<1> DEFINE l == LaneOf[t]
<1>2. l \in Lanes /\ l \in L /\ t \in Pumped(ls[l])
  BY <1>1, LaneOfAssumption, DrainLanesEffect
<1>3. lanes'[l] = Pump(ls[l])
  BY <1>2, DrainLanesEffect
<1>4. /\ ProperLane(ls[l], Tasks)
      /\ NoRepetition(ls[l].queue)
      /\ Queued(ls[l]) \cap ls[l].active = {}
  BY <1>2, QueuesAreClean
<1>5. Cardinality(Pump(ls[l]).active) <= Pump(ls[l]).maxConcurrent
  BY <1>2, <1>4, PumpUsesSlots
<1> QED
  BY <1>3, <1>5

-----------------------------------------------------------------------------
\* At the start every lane is empty and no command has been seen.
THEOREM InitIInv == Init => IInv
<1> SUFFICES ASSUME Init PROVE IInv
  OBVIOUS
<1>0. /\ \A l \in Lanes : /\ lanes[l].queue = << >> /\ lanes[l].active = {}
                          /\ lanes[l].maxConcurrent = 1 /\ lanes[l].generation = 0
      /\ \A t \in Tasks : phase[t] = "idle" /\ taskGeneration[t] = 0 /\ enqueuedAt[t] = 0
  BY DEF Init, NewLane
<1>1. lanes \in [Lanes -> LaneState(Tasks)]
  <2>1. NewLane \in LaneState(Tasks)
    BY EmptySeq DEF NewLane, LaneState
  <2> QED
    BY <2>1 DEF Init
<1>2. TypeOK
  BY <1>1 DEF Init, TypeOK, Phases
<1>3. \A l \in Lanes : Len(lanes[l].queue) = 0
  BY <1>0, EmptySeq
<1>4. Sound(lanes, phase, taskGeneration, enqueuedAt)
  <2>1. ProperLanes(lanes)
    BY <1>0, <1>1, FS_EmptySet DEF ProperLanes
  <2>2. QueueHoldsQueued(lanes, phase) /\ QueueSorted(lanes, enqueuedAt)
    BY <1>0, <1>3 DEF QueueHoldsQueued, QueueSorted
  <2>3. SlotsExactIn(lanes, phase, taskGeneration) /\ FifoIn(phase, enqueuedAt)
    BY <1>0 DEF SlotsExactIn, FifoIn, Finished
  <2>4. GenerationsPast(lanes, taskGeneration)
    BY <1>0, LaneOfAssumption DEF GenerationsPast
  <2> QED
    BY <1>2, <2>1, <2>2, <2>3, <2>4 DEF Sound, TypeOK
<1>5. \A l \in Lanes : NoSlotWasted(l, lanes)
  BY <1>0 DEF NoSlotWasted
<1>6. Numbered /\ SnapshotStarted /\ DrainedIsTrue
  BY DEF Init, Numbered, SnapshotStarted, DrainedIsTrue
<1> QED
  BY <1>2, <1>4, <1>5, <1>6 DEF IInv

\* An accepted command goes to the end of its lane's queue with a new number.
LEMMA EnqueueKeeps ==
  ASSUME IInv, NEW t \in Tasks, Enqueue(t)
  PROVE  StepIsProper
<1> DEFINE l == LaneOf[t]
           ls == [lanes EXCEPT ![l] = Push(@, t)]
           ph == [phase EXCEPT ![t] = "queued"]
<1>0. l \in Lanes
  BY LaneOfAssumption
<1>1. /\ phase[t] = "idle"
      /\ now \in Nat /\ now' = now + 1
      /\ enqueuedAt' = [enqueuedAt EXCEPT ![t] = now + 1]
      /\ DrainLanes({l}, ls, ph)
      /\ UNCHANGED << gatewayDraining, resets, waiter >>
  BY DEF Enqueue, IInv, TypeOK
<1>2. /\ ProperLanes(lanes)
      /\ phase \in [Tasks -> Phases] /\ taskGeneration \in [Tasks -> Nat]
      /\ enqueuedAt \in [Tasks -> Nat]
      /\ QueueHoldsQueued(lanes, phase)
      /\ QueueSorted(lanes, enqueuedAt)
      /\ SlotsExactIn(lanes, phase, taskGeneration)
      /\ FifoIn(phase, enqueuedAt)
      /\ GenerationsPast(lanes, taskGeneration)
  BY DEF IInv, Sound
<1>3. \A k \in Lanes : k # l => ls[k] = lanes[k]
  BY <1>2 DEF ProperLanes
<1>4. /\ ProperLane(ls[l], Tasks)
      /\ ls[l].active = lanes[l].active
      /\ ls[l].maxConcurrent = lanes[l].maxConcurrent
      /\ ls[l].generation = lanes[l].generation
      /\ Len(ls[l].queue) = Len(lanes[l].queue) + 1
      /\ \A i \in 1 .. Len(lanes[l].queue) : ls[l].queue[i] = lanes[l].queue[i]
      /\ ls[l].queue[Len(lanes[l].queue) + 1] = t
  <2>1. ls[l] = Push(lanes[l], t) /\ ProperLane(lanes[l], Tasks)
    BY <1>0, <1>2 DEF ProperLanes, ProperLane
  <2>2. LET pushed == Push(lanes[l], t)
        IN  /\ ProperLane(pushed, Tasks)
            /\ pushed.active = lanes[l].active
            /\ pushed.maxConcurrent = lanes[l].maxConcurrent
            /\ pushed.generation = lanes[l].generation
            /\ Len(pushed.queue) = Len(lanes[l].queue) + 1
            /\ \A i \in 1 .. Len(lanes[l].queue) : pushed.queue[i] = lanes[l].queue[i]
            /\ pushed.queue[Len(lanes[l].queue) + 1] = t
    BY <2>1, PushProper
  <2> HIDE DEF ls, l
  <2> QED
    BY <2>1, <2>2
<1>5. \A k \in Lanes : /\ lanes[k].queue \in Seq(Tasks)
                       /\ Len(lanes[k].queue) \in Nat
                       /\ \A i \in 1 .. Len(lanes[k].queue) : lanes[k].queue[i] \in Tasks
  BY <1>2, LenProperties, ElementOfSeq DEF ProperLanes, LaneState
<1>6. /\ \A u \in Tasks : u # t => ph[u] = phase[u] /\ enqueuedAt'[u] = enqueuedAt[u]
      /\ ph[t] = "queued" /\ enqueuedAt'[t] = now + 1
      /\ \A u \in Tasks : enqueuedAt[u] \in Nat /\ enqueuedAt[u] < now + 1
  <2>1. \A u \in Tasks : enqueuedAt[u] \in Nat /\ enqueuedAt[u] <= now
    BY <1>2 DEF IInv, Numbered
  <2> QED
    BY <1>1, <1>2, <2>1
<1>7. \* An entry of any queue is an old one, other than t, or is t in the last place.
      \A k \in Lanes : \A i \in 1 .. Len(ls[k].queue) :
        \/ /\ i \in 1 .. Len(lanes[k].queue)
           /\ ls[k].queue[i] = lanes[k].queue[i]
           /\ lanes[k].queue[i] \in Tasks /\ lanes[k].queue[i] # t
        \/ k = l /\ i = Len(lanes[l].queue) + 1 /\ ls[k].queue[i] = t
  <2>1. \A k \in Lanes : \A i \in 1 .. Len(lanes[k].queue) : lanes[k].queue[i] # t
    BY <1>1, <1>2 DEF QueueHoldsQueued
  <2> HIDE DEF ls, l
  <2>2. TAKE k \in Lanes
  <2>3. TAKE i \in 1 .. Len(ls[k].queue)
  <2>4. CASE k # l
    BY <1>3, <1>5, <2>1, <2>3, <2>4
  <2>5. CASE k = l /\ i = Len(lanes[l].queue) + 1
    BY <1>4, <2>5
  <2>6. CASE k = l /\ i # Len(lanes[l].queue) + 1
    <3>1. i \in 1 .. Len(lanes[l].queue)
      BY <1>4, <1>5, <2>3, <2>6
    <3> QED
      BY <1>4, <1>5, <2>1, <2>6, <3>1
  <2> QED
    BY <2>4, <2>5, <2>6
<1> HIDE DEF ls, ph
<1>8. Sound(ls, ph, taskGeneration, enqueuedAt')
  <2>1. ProperLanes(ls)
    <3>1. DOMAIN ls = Lanes /\ ls = [k \in Lanes |-> ls[k]]
      BY <1>2 DEF ls, ProperLanes
    <3>2. \A k \in Lanes : ls[k] \in LaneState(Tasks) /\ IsFiniteSet(ls[k].active)
      BY <1>2, <1>3, <1>4 DEF ProperLanes, ProperLane
    <3> QED
      BY <3>1, <3>2 DEF ProperLanes
  <2>2. ph \in [Tasks -> Phases] /\ enqueuedAt' \in [Tasks -> Nat]
    BY <1>1, <1>2 DEF ph, Phases
  <2>3. QueueHoldsQueued(ls, ph)
    <3>1. \A k \in Lanes : \A i \in 1 .. Len(ls[k].queue) :
            LaneOf[ls[k].queue[i]] = k /\ ph[ls[k].queue[i]] = "queued"
      <4>1. TAKE k \in Lanes
      <4>2. TAKE i \in 1 .. Len(ls[k].queue)
      <4>3. CASE k = l /\ ls[k].queue[i] = t
        BY <1>6, <4>3
      <4>4. CASE /\ i \in 1 .. Len(lanes[k].queue)
                 /\ ls[k].queue[i] = lanes[k].queue[i]
                 /\ lanes[k].queue[i] \in Tasks /\ lanes[k].queue[i] # t
        BY <1>2, <1>6, <4>4 DEF QueueHoldsQueued
      <4> QED
        BY <1>7, <4>3, <4>4
    <3>2. ASSUME NEW u \in Tasks, ph[u] = "queued"
          PROVE  u \in Queued(ls[LaneOf[u]])
      <4>1. CASE u = t
        <5>1. Len(lanes[l].queue) + 1 \in 1 .. Len(ls[l].queue)
          BY <1>0, <1>4, <1>5
        <5>2. t \in Queued(ls[l])
          BY <1>4, <5>1 DEF Queued
        <5> QED
          BY <4>1, <5>2
      <4>2. CASE u # t
        <5>1. LaneOf[u] \in Lanes /\ u \in Queued(lanes[LaneOf[u]])
          BY <1>2, <1>6, <3>2, <4>2, LaneOfAssumption DEF QueueHoldsQueued
        <5>2. PICK i \in 1 .. Len(lanes[LaneOf[u]].queue) : lanes[LaneOf[u]].queue[i] = u
          BY <5>1 DEF Queued
        <5>3. i \in 1 .. Len(ls[LaneOf[u]].queue) /\ ls[LaneOf[u]].queue[i] = u
          <6>1. CASE LaneOf[u] = l
            BY <1>4, <1>5, <5>1, <5>2, <6>1
          <6>2. CASE LaneOf[u] # l
            BY <1>3, <5>1, <5>2, <6>2
          <6> QED
            BY <6>1, <6>2
        <5> QED
          BY <5>3 DEF Queued
      <4> QED
        BY <4>1, <4>2
    <3> QED
      BY <3>1, <3>2 DEF QueueHoldsQueued
  <2>4. QueueSorted(ls, enqueuedAt')
    <3>1. SUFFICES ASSUME NEW k \in Lanes,
                          NEW i \in 1 .. Len(ls[k].queue), NEW j \in 1 .. Len(ls[k].queue), i < j
                   PROVE  enqueuedAt'[ls[k].queue[i]] < enqueuedAt'[ls[k].queue[j]]
      BY DEF QueueSorted
    <3>2. CASE j \in 1 .. Len(lanes[k].queue) /\ ls[k].queue[j] = lanes[k].queue[j]
                 /\ lanes[k].queue[j] \in Tasks /\ lanes[k].queue[j] # t
      <4>1. /\ i \in 1 .. Len(lanes[k].queue) /\ ls[k].queue[i] = lanes[k].queue[i]
            /\ lanes[k].queue[i] \in Tasks /\ lanes[k].queue[i] # t
        BY <1>5, <1>7, <3>1, <3>2
      <4>2. enqueuedAt[lanes[k].queue[i]] < enqueuedAt[lanes[k].queue[j]]
        BY <1>2, <3>1, <3>2, <4>1 DEF QueueSorted
      <4> QED
        BY <1>6, <3>2, <4>1, <4>2
    <3>3. CASE k = l /\ j = Len(lanes[l].queue) + 1 /\ ls[k].queue[j] = t
      <4>1. /\ ls[k].queue[i] = lanes[k].queue[i]
            /\ lanes[k].queue[i] \in Tasks /\ lanes[k].queue[i] # t
        BY <1>5, <1>7, <3>1, <3>3
      <4> QED
        BY <1>6, <3>3, <4>1
    <3> QED
      BY <1>7, <3>2, <3>3
  <2>5. SlotsExactIn(ls, ph, taskGeneration)
    <3>1. \A k \in Lanes : ls[k].active = lanes[k].active /\ ls[k].generation = lanes[k].generation
      BY <1>3, <1>4
    <3>2. \A u \in Tasks : ph[u] = "running" <=> phase[u] = "running"
      BY <1>1, <1>6
    <3> QED
      BY <1>2, <3>1, <3>2 DEF SlotsExactIn
  <2>6. FifoIn(ph, enqueuedAt')
    BY <1>1, <1>2, <1>6 DEF FifoIn, Finished
  <2>7. GenerationsPast(ls, taskGeneration)
    BY <1>2, <1>3, <1>4, LaneOfAssumption DEF GenerationsPast
  <2> QED
    BY <1>2, <2>1, <2>2, <2>3, <2>4, <2>5, <2>6, <2>7 DEF Sound
<1>9. Sound(lanes', phase', taskGeneration', enqueuedAt')
  BY <1>0, <1>1, <1>8, DrainLanesKeeps
<1>10. \A k \in Lanes : NoSlotWasted(k, lanes')
  <2>1. \A k \in Lanes \ {l} : NoSlotWasted(k, ls)
    BY <1>3 DEF IInv, NoSlotWasted
  <2> QED
    BY <1>0, <1>1, <1>8, <2>1, DrainLanesWakes
<1>11. /\ \A u \in Tasks : ph[u] # "queued" =>
            phase'[u] = ph[u] /\ taskGeneration'[u] = taskGeneration[u]
       /\ \A u \in Tasks : ph[u] = "queued" => phase'[u] \in {"queued", "running"}
  BY <1>0, <1>1, <1>8, DrainLanesSpares
<1>12. Numbered'
  BY <1>1, <1>6, <1>11 DEF Numbered, IInv
<1>13. SnapshotStarted' /\ DrainedIsTrue'
  <2>1. \A k \in Lanes : lanes'[k].generation = lanes[k].generation
    BY <1>0, <1>1, <1>3, <1>4, <1>8, DrainLanesEffect
  <2>2. \A k \in Lanes : lanes[k].generation \in Nat
    BY <1>2 DEF ProperLanes, LaneState
  <2> QED
    BY <1>1, <1>6, <1>11, <2>1, <2>2, SnapshotKeeps DEF Finished
<1>14. TypeOK'
  BY <1>1, <1>9 DEF TypeOK, Sound, ProperLanes, IInv
<1>15. StartsAreWithinCap
  <2>1. \A u \in Tasks : ph[u] = "running" => phase[u] = "running"
    BY <1>6
  <2> QED
    BY <1>0, <1>1, <1>8, <2>1, DrainLanesWithinCap
<1>16. EdgesAreKept
  <2>1. SUFFICES ASSUME NEW u \in Tasks
                 PROVE  Lifecycle!MayBecome(phase[u], phase'[u]) /\ Lifecycle!NumbersArrival(u)
    BY DEF EdgesAreKept
  <2>2. CASE u = t
    BY <1>1, <1>6, <1>11, <2>2 DEF Lifecycle!MayBecome, Lifecycle!NumbersArrival
  <2>3. CASE u # t
    BY <1>6, <1>11, <2>3 DEF Lifecycle!MayBecome, Lifecycle!NumbersArrival
  <2> QED
    BY <2>2, <2>3
<1> QED
  BY <1>9, <1>10, <1>12, <1>13, <1>14, <1>15, <1>16 DEF IInv, StepIsProper

-----------------------------------------------------------------------------
\* Where neither the queues nor the set of waiting commands change, the queues
\* still hold what they should, in order.
LEMMA SameQueues ==
  ASSUME NEW ls, NEW ph, NEW tg, NEW at, Sound(ls, ph, tg, at), NEW ls2, NEW ph2,
         \A k \in Lanes : ls2[k].queue = ls[k].queue,
         \A t \in Tasks : ph2[t] = "queued" <=> ph[t] = "queued"
  PROVE  QueueHoldsQueued(ls2, ph2) /\ QueueSorted(ls2, at)
<1>1. \A k \in Lanes : \A i \in 1 .. Len(ls[k].queue) : ls[k].queue[i] \in Tasks
  BY ElementOfSeq DEF Sound, ProperLanes, LaneState
<1>2. QueueHoldsQueued(ls2, ph2)
  <2>1. \A k \in Lanes : \A i \in 1 .. Len(ls2[k].queue) :
          LaneOf[ls2[k].queue[i]] = k /\ ph2[ls2[k].queue[i]] = "queued"
    BY <1>1 DEF Sound, QueueHoldsQueued
  <2>2. \A k \in Lanes : Queued(ls2[k]) = Queued(ls[k])
    BY DEF Queued
  <2>3. \A t \in Tasks : ph2[t] = "queued" => t \in Queued(ls2[LaneOf[t]])
    BY <2>2, LaneOfAssumption DEF Sound, QueueHoldsQueued
  <2> QED
    BY <2>1, <2>3 DEF QueueHoldsQueued
<1>3. QueueSorted(ls2, at)
  BY DEF Sound, QueueSorted
<1> QED
  BY <1>2, <1>3

\* An operation that numbers no command and ends in drainLane preserves the
\* invariant when what it hands to drainLane is sound.
LEMMA DrainOperationKeeps ==
  ASSUME IInv, NEW STATE ls, NEW STATE ph, NEW L \in SUBSET Lanes,
         Sound(ls, ph, taskGeneration, enqueuedAt),
         DrainLanes(L, ls, ph),
         \A l \in Lanes \ L : NoSlotWasted(l, ls),
         UNCHANGED << enqueuedAt, now, waiter >>,
         gatewayDraining' \in BOOLEAN, resets' \in Nat,
         \A t \in Tasks : ph[t] = phase[t] \/ (phase[t] = "running" /\ ph[t] \in Finished),
         \A l \in Lanes : ls[l].generation >= lanes[l].generation
  PROVE  StepIsProper
<1>1. Sound(lanes', phase', taskGeneration', enqueuedAt')
  BY DrainLanesKeeps
<1>2. \A l \in Lanes : NoSlotWasted(l, lanes')
  BY DrainLanesWakes
<1>3. /\ \A t \in Tasks : ph[t] # "queued" =>
           phase'[t] = ph[t] /\ taskGeneration'[t] = taskGeneration[t]
      /\ \A t \in Tasks : ph[t] = "queued" => phase'[t] \in {"queued", "running"}
  BY DrainLanesSpares
<1>4. Numbered'
  BY <1>3 DEF IInv, Numbered, Finished
<1>5. SnapshotStarted' /\ DrainedIsTrue'
  <2>1. \A l \in Lanes : lanes'[l].generation = ls[l].generation
    BY DrainLanesEffect
  <2>2. \A l \in Lanes : ls[l].generation \in Nat
    BY DEF Sound, ProperLanes, LaneState
  <2>3. \A t \in Tasks : phase[t] \in {"running"} \cup Finished =>
           /\ phase'[t] \in {"running"} \cup Finished
           /\ phase[t] \in Finished => phase'[t] \in Finished
           /\ taskGeneration'[t] = taskGeneration[t]
    BY <1>3 DEF Finished
  <2> QED
    BY <2>1, <2>2, <2>3, SnapshotKeeps
<1>6. TypeOK'
  BY <1>1 DEF TypeOK, Sound, ProperLanes, IInv
<1>7. StartsAreWithinCap
  BY DrainLanesWithinCap DEF Finished
<1>8. EdgesAreKept
  <2>1. \A t \in Tasks : \/ phase'[t] = phase[t]
                         \/ phase[t] = "running" /\ phase'[t] \in Finished
                         \/ phase[t] = "queued" /\ phase'[t] = "running"
    BY <1>3 DEF Finished
  <2> QED
    BY <2>1 DEF EdgesAreKept, Finished, Lifecycle!MayBecome, Lifecycle!NumbersArrival
<1> QED
  BY <1>1, <1>2, <1>4, <1>5, <1>6, <1>7, <1>8 DEF IInv, StepIsProper

\* A task of the current generation that ends gives its slot to the next one.
LEMMA FinishCurrentKeeps ==
  ASSUME IInv, NEW t \in Tasks, NEW outcome \in Finished, Finish(t, outcome),
         taskGeneration[t] = lanes[LaneOf[t]].generation
  PROVE  StepIsProper
<1> DEFINE l == LaneOf[t]
           ls == [lanes EXCEPT ![l] = Release(@, t)]
           ph == [phase EXCEPT ![t] = outcome]
<1>0. l \in Lanes
  BY LaneOfAssumption
<1>1. /\ phase[t] = "running"
      /\ DrainLanes({l}, ls, ph)
      /\ UNCHANGED << gatewayDraining, enqueuedAt, now, resets, waiter >>
  BY DEF Finish
<1>2. Sound(lanes, phase, taskGeneration, enqueuedAt) /\ ProperLanes(lanes)
  BY DEF IInv, Sound
<1>3. /\ \A k \in Lanes : k # l => ls[k] = lanes[k]
      /\ ls[l] = Release(lanes[l], t)
      /\ ls = [k \in Lanes |-> ls[k]]
  BY <1>0, <1>2 DEF ProperLanes
<1>4. /\ \A k \in Lanes : /\ ls[k].queue = lanes[k].queue
                          /\ ls[k].generation = lanes[k].generation
                          /\ ls[k].maxConcurrent = lanes[k].maxConcurrent
                          /\ ls[k] \in LaneState(Tasks)
                          /\ IsFiniteSet(ls[k].active)
                          /\ ls[k].active = IF k = l THEN lanes[k].active \ {t} ELSE lanes[k].active
  <2>1. Release(lanes[l], t).active = lanes[l].active \ {t}
    BY <1>0, <1>2 DEF ProperLanes, Release, LaneState
  <2>2. IsFiniteSet(lanes[l].active \ {t})
    BY <1>0, <1>2, FS_RemoveElement DEF ProperLanes
  <2>3. /\ Release(lanes[l], t) \in LaneState(Tasks)
        /\ Release(lanes[l], t).queue = lanes[l].queue
        /\ Release(lanes[l], t).generation = lanes[l].generation
        /\ Release(lanes[l], t).maxConcurrent = lanes[l].maxConcurrent
    BY <1>0, <1>2 DEF ProperLanes, Release, LaneState
  <2> HIDE DEF ls, l
  <2> QED
    BY <1>2, <1>3, <2>1, <2>2, <2>3 DEF ProperLanes
<1>5. /\ \A u \in Tasks : u # t => ph[u] = phase[u]
      /\ ph[t] = outcome
      /\ ph \in [Tasks -> Phases]
  BY <1>2 DEF Sound, Finished, Phases
<1> HIDE DEF ls, ph
<1>6. Sound(ls, ph, taskGeneration, enqueuedAt)
  <2>1. ProperLanes(ls)
    BY <1>3, <1>4 DEF ProperLanes
  <2>2. QueueHoldsQueued(ls, ph) /\ QueueSorted(ls, enqueuedAt)
    <3>1. \A u \in Tasks : ph[u] = "queued" <=> phase[u] = "queued"
      BY <1>1, <1>5 DEF Finished
    <3>2. \A k \in Lanes : ls[k].queue = lanes[k].queue
      BY <1>4
    <3> QED
      BY <1>2, <3>1, <3>2, SameQueues
  <2>3. SlotsExactIn(ls, ph, taskGeneration)
    <3>1. SUFFICES ASSUME NEW k \in Lanes
                   PROVE  ls[k].active = { u \in Tasks : /\ LaneOf[u] = k
                                                         /\ ph[u] = "running"
                                                         /\ taskGeneration[u] = ls[k].generation }
      BY DEF SlotsExactIn
    <3>2. lanes[k].active = { u \in Tasks : /\ LaneOf[u] = k
                                            /\ phase[u] = "running"
                                            /\ taskGeneration[u] = lanes[k].generation }
      BY <1>2 DEF Sound, SlotsExactIn
    <3>3. \A u \in Tasks : ph[u] = "running" <=> phase[u] = "running" /\ u # t
      BY <1>5 DEF Finished
    <3>4. /\ ls[k].generation = lanes[k].generation
          /\ ls[k].active = IF k = l THEN lanes[k].active \ {t} ELSE lanes[k].active
      BY <1>4
    <3>5. ls[k].active = lanes[k].active \ {t}
      BY <3>2, <3>4
    <3> QED
      BY <3>2, <3>3, <3>4, <3>5
  <2>4. FifoIn(ph, enqueuedAt)
    BY <1>1, <1>2, <1>5 DEF Sound, FifoIn, Finished
  <2>5. GenerationsPast(ls, taskGeneration)
    BY <1>2, <1>4, LaneOfAssumption DEF Sound, GenerationsPast
  <2> QED
    BY <1>2, <1>5, <2>1, <2>2, <2>3, <2>4, <2>5 DEF Sound
<1>7. \A k \in Lanes \ {l} : NoSlotWasted(k, ls)
  BY <1>3 DEF IInv, NoSlotWasted
<1>8. \A u \in Tasks : ph[u] = phase[u] \/ (phase[u] = "running" /\ ph[u] \in Finished)
  BY <1>1, <1>5
<1>9. \A k \in Lanes : ls[k].generation >= lanes[k].generation
  <2>1. \A k \in Lanes : lanes[k].generation \in Nat /\ ls[k].generation = lanes[k].generation
    BY <1>2, <1>4 DEF ProperLanes, LaneState
  <2> QED
    BY <2>1
<1>10. gatewayDraining' \in BOOLEAN /\ resets' \in Nat
  BY <1>1 DEF IInv, TypeOK
<1>11. UNCHANGED << enqueuedAt, now, waiter >>
  BY <1>1
<1> QED
  BY <1>0, <1>1, <1>6, <1>7, <1>8, <1>9, <1>10, <1>11, DrainOperationKeeps

\* A task of an older generation that ends changes nothing but its own phase.
LEMMA FinishStaleKeeps ==
  ASSUME IInv, NEW t \in Tasks, NEW outcome \in Finished, Finish(t, outcome),
         taskGeneration[t] # lanes[LaneOf[t]].generation
  PROVE  StepIsProper
<1>1. /\ phase[t] = "running"
      /\ phase' = [phase EXCEPT ![t] = outcome]
      /\ UNCHANGED << lanes, taskGeneration, gatewayDraining, enqueuedAt, now, resets, waiter >>
  BY DEF Finish
<1>2. Sound(lanes, phase, taskGeneration, enqueuedAt)
  BY DEF IInv
<1>3. /\ phase' \in [Tasks -> Phases]
      /\ phase'[t] = outcome
      /\ \A u \in Tasks : u # t => phase'[u] = phase[u]
  BY <1>1, <1>2 DEF Sound, Finished, Phases
<1>4. Sound(lanes, phase', taskGeneration, enqueuedAt)
  <2>1. QueueHoldsQueued(lanes, phase') /\ QueueSorted(lanes, enqueuedAt)
    <3>1. \A u \in Tasks : phase'[u] = "queued" <=> phase[u] = "queued"
      BY <1>1, <1>3 DEF Finished
    <3> QED
      BY <1>2, <3>1, SameQueues
  <2>2. SlotsExactIn(lanes, phase', taskGeneration)
    <3>1. SUFFICES ASSUME NEW k \in Lanes, NEW u \in Tasks
                   PROVE  /\ LaneOf[u] = k
                          /\ taskGeneration[u] = lanes[k].generation
                          => (phase'[u] = "running" <=> phase[u] = "running")
      BY <1>2 DEF Sound, SlotsExactIn
    <3> QED
      BY <1>3
  <2>3. FifoIn(phase', enqueuedAt)
    BY <1>1, <1>2, <1>3 DEF Sound, FifoIn, Finished
  <2> QED
    BY <1>2, <1>3, <2>1, <2>2, <2>3 DEF Sound
<1>5. SnapshotStarted' /\ DrainedIsTrue'
  <2>1. \A k \in Lanes : lanes[k].generation \in Nat
    BY <1>2 DEF Sound, ProperLanes, LaneState
  <2>2. \A u \in Tasks : phase[u] \in {"running"} \cup Finished =>
           /\ phase'[u] \in {"running"} \cup Finished
           /\ phase[u] \in Finished => phase'[u] \in Finished
    BY <1>1, <1>3 DEF Finished
  <2> QED
    BY <1>1, <2>1, <2>2, SnapshotKeeps
<1>6. Numbered'
  BY <1>1, <1>3 DEF IInv, Numbered, Finished
<1>7. IInv'
  BY <1>1, <1>3, <1>4, <1>5, <1>6 DEF IInv, TypeOK
<1>8. StartsAreWithinCap /\ EdgesAreKept
  BY <1>1, <1>3 DEF StartsAreWithinCap, EdgesAreKept, Finished,
                    Lifecycle!MayBecome, Lifecycle!NumbersArrival
<1> QED
  BY <1>7, <1>8 DEF StepIsProper

\* A new cap changes the cap of one lane, and nothing else before the drain.
LEMMA SetConcurrencyKeeps ==
  ASSUME IInv, NEW l \in Lanes, NEW cap \in Caps, SetConcurrency(l, cap)
  PROVE  StepIsProper
<1> DEFINE c == IF cap < 1 THEN 1 ELSE cap
           ls == [lanes EXCEPT ![l].maxConcurrent = c]
<1>1. /\ DrainLanes({l}, ls, phase)
      /\ UNCHANGED << gatewayDraining, enqueuedAt, now, resets, waiter >>
  BY DEF SetConcurrency
<1>2. Sound(lanes, phase, taskGeneration, enqueuedAt) /\ ProperLanes(lanes)
  BY DEF IInv, Sound
<1>3. c \in Nat \ {0}
  BY BoundsAssumption
<1>4. /\ \A k \in Lanes : /\ ls[k].queue = lanes[k].queue
                          /\ ls[k].generation = lanes[k].generation
                          /\ ls[k].active = lanes[k].active
                          /\ ls[k] \in LaneState(Tasks)
                          /\ k # l => ls[k] = lanes[k]
      /\ ls = [k \in Lanes |-> ls[k]]
  <2> HIDE DEF c
  <2> QED
    BY <1>2, <1>3 DEF ProperLanes, LaneState
<1> HIDE DEF ls
<1>5. Sound(ls, phase, taskGeneration, enqueuedAt)
  <2>1. ProperLanes(ls)
    BY <1>2, <1>4 DEF ProperLanes
  <2>2. QueueHoldsQueued(ls, phase) /\ QueueSorted(ls, enqueuedAt)
    <3>1. \A k \in Lanes : ls[k].queue = lanes[k].queue
      BY <1>4
    <3> QED
      BY <1>2, <3>1, SameQueues
  <2>3. SlotsExactIn(ls, phase, taskGeneration)
    BY <1>2, <1>4 DEF Sound, SlotsExactIn
  <2>4. GenerationsPast(ls, taskGeneration)
    BY <1>2, <1>4, LaneOfAssumption DEF Sound, GenerationsPast
  <2> QED
    BY <1>2, <2>1, <2>2, <2>3, <2>4 DEF Sound
<1>6. \A k \in Lanes \ {l} : NoSlotWasted(k, ls)
  BY <1>4 DEF IInv, NoSlotWasted
<1>7. \A k \in Lanes : ls[k].generation >= lanes[k].generation
  <2>1. \A k \in Lanes : lanes[k].generation \in Nat /\ ls[k].generation = lanes[k].generation
    BY <1>2, <1>4 DEF ProperLanes, LaneState
  <2> QED
    BY <2>1
<1>8. gatewayDraining' \in BOOLEAN /\ resets' \in Nat /\ UNCHANGED << enqueuedAt, now, waiter >>
  BY <1>1 DEF IInv, TypeOK
<1> QED
  BY <1>1, <1>5, <1>6, <1>7, <1>8, DrainOperationKeeps

\* The cleared entries leave the queue and the phase "queued" together.
LEMMA ClearKeeps ==
  ASSUME IInv, NEW l \in Lanes, Clear(l)
  PROVE  StepIsProper
<1>1. /\ lanes' = [lanes EXCEPT ![l] = Emptied(@)]
      /\ phase' = [t \in Tasks |-> IF t \in Queued(lanes[l]) THEN "cleared" ELSE phase[t]]
      /\ UNCHANGED << gatewayDraining, taskGeneration, enqueuedAt, now, resets, waiter >>
  BY DEF Clear
<1>2. Sound(lanes, phase, taskGeneration, enqueuedAt) /\ ProperLanes(lanes)
  BY DEF IInv, Sound
<1>3. /\ lanes'[l].queue = << >>
      /\ \A k \in Lanes : /\ k # l => lanes'[k] = lanes[k]
                          /\ lanes'[k].active = lanes[k].active
                          /\ lanes'[k].generation = lanes[k].generation
                          /\ lanes'[k].maxConcurrent = lanes[k].maxConcurrent
                          /\ lanes'[k] \in LaneState(Tasks)
      /\ lanes' = [k \in Lanes |-> lanes'[k]]
  <2>1. << >> \in Seq(Tasks)
    BY EmptySeq
  <2> QED
    BY <1>1, <1>2, <2>1 DEF ProperLanes, Emptied, LaneState
<1>4. \A t \in Tasks : /\ t \in Queued(lanes[l]) => phase[t] = "queued" /\ LaneOf[t] = l
                       /\ phase[t] = "queued" /\ LaneOf[t] = l => t \in Queued(lanes[l])
  BY <1>2 DEF Sound, QueueHoldsQueued, Queued
<1>5. \A t \in Tasks :
        phase'[t] = IF phase[t] = "queued" /\ LaneOf[t] = l THEN "cleared" ELSE phase[t]
  BY <1>1, <1>4
<1>6. Sound(lanes', phase', taskGeneration, enqueuedAt)
  <2>1. ProperLanes(lanes')
    BY <1>2, <1>3 DEF ProperLanes
  <2>2. phase' \in [Tasks -> Phases]
    <3>1. \A t \in Tasks : (IF t \in Queued(lanes[l]) THEN "cleared" ELSE phase[t]) \in Phases
      BY <1>2 DEF Sound, Phases
    <3> QED
      BY <1>1, <3>1
  <2>3. Len(lanes'[l].queue) = 0
    BY <1>3, EmptySeq
  <2>4. \A k \in Lanes : \A i \in 1 .. Len(lanes[k].queue) : lanes[k].queue[i] \in Tasks
    BY <1>2, ElementOfSeq DEF ProperLanes, LaneState
  <2>5. QueueHoldsQueued(lanes', phase')
    <3>1. ASSUME NEW k \in Lanes, NEW i \in 1 .. Len(lanes'[k].queue)
          PROVE  LaneOf[lanes'[k].queue[i]] = k /\ phase'[lanes'[k].queue[i]] = "queued"
      <4>1. k # l /\ lanes'[k] = lanes[k]
        BY <1>3, <2>3, <3>1
      <4> QED
        BY <1>2, <1>5, <2>4, <3>1, <4>1 DEF Sound, QueueHoldsQueued
    <3>2. ASSUME NEW t \in Tasks, phase'[t] = "queued"
          PROVE  t \in Queued(lanes'[LaneOf[t]])
      <4>1. LaneOf[t] \in Lanes /\ LaneOf[t] # l /\ phase[t] = "queued"
        BY <1>5, <3>2, LaneOfAssumption
      <4> QED
        BY <1>2, <1>3, <4>1 DEF Sound, QueueHoldsQueued
    <3> QED
      BY <3>1, <3>2 DEF QueueHoldsQueued
  <2>6. QueueSorted(lanes', enqueuedAt)
    <3>1. SUFFICES ASSUME NEW k \in Lanes, NEW i \in 1 .. Len(lanes'[k].queue),
                          NEW j \in 1 .. Len(lanes'[k].queue), i < j
                   PROVE  enqueuedAt[lanes'[k].queue[i]] < enqueuedAt[lanes'[k].queue[j]]
      BY DEF QueueSorted
    <3>2. lanes'[k] = lanes[k]
      BY <1>3, <2>3, <3>1
    <3> QED
      BY <1>2, <3>1, <3>2 DEF Sound, QueueSorted
  <2>7. SlotsExactIn(lanes', phase', taskGeneration)
    BY <1>2, <1>3, <1>5 DEF Sound, SlotsExactIn
  <2>8. FifoIn(phase', enqueuedAt)
    BY <1>2, <1>5 DEF Sound, FifoIn, Finished
  <2>9. GenerationsPast(lanes', taskGeneration)
    BY <1>2, <1>3, LaneOfAssumption DEF Sound, GenerationsPast
  <2> QED
    BY <1>2, <2>1, <2>2, <2>5, <2>6, <2>7, <2>8, <2>9 DEF Sound
<1>7. \A k \in Lanes : NoSlotWasted(k, lanes')
  BY <1>3 DEF IInv, NoSlotWasted
<1>8. SnapshotStarted' /\ DrainedIsTrue'
  <2>1. \A k \in Lanes : lanes[k].generation \in Nat
    BY <1>2 DEF ProperLanes, LaneState
  <2>2. \A k \in Lanes :
          lanes'[k].generation \in Nat /\ lanes'[k].generation >= lanes[k].generation
    BY <1>3, <2>1
  <2>3. \A t \in Tasks : phase[t] \in {"running"} \cup Finished => phase'[t] = phase[t]
    BY <1>5 DEF Finished
  <2> QED
    BY <1>1, <2>2, <2>3, SnapshotKeeps
<1>9. Numbered'
  BY <1>1, <1>5 DEF IInv, Numbered
<1>10. TypeOK'
  BY <1>1, <1>6 DEF IInv, TypeOK, Sound, ProperLanes
<1>11. StartsAreWithinCap /\ EdgesAreKept
  BY <1>1, <1>5 DEF StartsAreWithinCap, EdgesAreKept,
                    Lifecycle!MayBecome, Lifecycle!NumbersArrival
<1> QED
  BY <1>1, <1>6, <1>7, <1>8, <1>9, <1>10, <1>11 DEF IInv, StepIsProper

\* A reset gives every lane a generation that no task has, so its slots are free;
\* the lanes left alone by the drain have nothing queued.
LEMMA ResetAllKeeps ==
  ASSUME IInv, ResetAll
  PROVE  StepIsProper
<1> DEFINE ls == [l \in Lanes |-> ResetLane(lanes[l])]
           L == {l \in Lanes : lanes[l].queue # << >>}
<1>1. /\ DrainLanes(L, ls, phase)
      /\ resets' = resets + 1 /\ gatewayDraining' = FALSE
      /\ UNCHANGED << enqueuedAt, now, waiter >>
  BY DEF ResetAll
<1>2. Sound(lanes, phase, taskGeneration, enqueuedAt) /\ ProperLanes(lanes)
  BY DEF IInv, Sound
<1>3. \A k \in Lanes : /\ ls[k].queue = lanes[k].queue
                       /\ ls[k].active = {}
                       /\ ls[k].generation = lanes[k].generation + 1
                       /\ lanes[k].generation \in Nat
                       /\ ls[k] \in LaneState(Tasks)
  <2>1. \A k \in Lanes : lanes[k] \in LaneState(Tasks)
    BY <1>2 DEF ProperLanes
  <2>2. \A k \in Lanes : ls[k] = ResetLane(lanes[k])
    OBVIOUS
  <2>3. \A x \in LaneState(Tasks) : /\ ResetLane(x).queue = x.queue
                                    /\ ResetLane(x).active = {}
                                    /\ ResetLane(x).generation = x.generation + 1
                                    /\ x.generation \in Nat
                                    /\ ResetLane(x) \in LaneState(Tasks)
    BY ResetLaneProper
  <2> HIDE DEF ls
  <2> QED
    BY <2>1, <2>2, <2>3
<1>4. ls = [k \in Lanes |-> ls[k]]
  OBVIOUS
<1> HIDE DEF ls
<1>5. Sound(ls, phase, taskGeneration, enqueuedAt)
  <2>1. ProperLanes(ls)
    BY <1>3, <1>4, FS_EmptySet DEF ProperLanes
  <2>2. QueueHoldsQueued(ls, phase) /\ QueueSorted(ls, enqueuedAt)
    <3>1. \A k \in Lanes : ls[k].queue = lanes[k].queue
      BY <1>3
    <3> QED
      BY <1>2, <3>1, SameQueues
  <2>3. \A t \in Tasks : /\ taskGeneration[t] \in Nat
                         /\ LaneOf[t] \in Lanes
                         /\ taskGeneration[t] <= lanes[LaneOf[t]].generation
    BY <1>2, LaneOfAssumption DEF Sound, GenerationsPast
  <2>4. \A t \in Tasks : taskGeneration[t] < ls[LaneOf[t]].generation
    BY <1>3, <2>3
  <2>5. SlotsExactIn(ls, phase, taskGeneration)
    BY <1>3, <2>3, <2>4 DEF SlotsExactIn
  <2>6. GenerationsPast(ls, taskGeneration)
    BY <1>3, <2>3, <2>4 DEF GenerationsPast
  <2> QED
    BY <1>2, <2>1, <2>2, <2>5, <2>6 DEF Sound
<1>6. \A k \in Lanes \ L : NoSlotWasted(k, ls)
  BY <1>3 DEF NoSlotWasted
<1>7. \A k \in Lanes : ls[k].generation >= lanes[k].generation
  BY <1>3
<1>8. gatewayDraining' \in BOOLEAN /\ resets' \in Nat
  <2>1. resets \in Nat
    BY DEF IInv, TypeOK
  <2>2. resets' \in Nat
    BY <1>1, <2>1
  <2>3. gatewayDraining' \in BOOLEAN
    BY <1>1, Zenon
  <2> QED
    BY <2>2, <2>3
<1>9. L \in SUBSET Lanes
  OBVIOUS
<1> HIDE DEF L
<1> QED
  BY <1>1, <1>5, <1>6, <1>7, <1>8, <1>9, DrainOperationKeeps

\* A refused command, a drain request and the waiter leave the lanes alone.
LEMMA RefuseKeeps ==
  ASSUME IInv, NEW t \in Tasks, Refuse(t)
  PROVE  StepIsProper
<1>1. /\ phase[t] = "idle"
      /\ phase' = [phase EXCEPT ![t] = "refused"]
      /\ UNCHANGED << lanes, gatewayDraining, taskGeneration, enqueuedAt, now, resets, waiter >>
  BY DEF Refuse
<1>2. Sound(lanes, phase, taskGeneration, enqueuedAt)
  BY DEF IInv
<1>3. /\ phase' \in [Tasks -> Phases]
      /\ phase'[t] = "refused"
      /\ \A u \in Tasks : u # t => phase'[u] = phase[u]
  BY <1>1, <1>2 DEF Sound, Phases
<1>4. \A u \in Tasks : \A p \in {"idle", "queued", "running", "resolved", "rejected"} :
        phase'[u] = p => phase[u] = p
  BY <1>3
<1>5. \A u \in Tasks : phase[u] # "idle" => phase'[u] = phase[u]
  BY <1>1, <1>3
<1>6. Sound(lanes, phase', taskGeneration, enqueuedAt)
  <2>1. QueueHoldsQueued(lanes, phase') /\ QueueSorted(lanes, enqueuedAt)
    <3>1. \A u \in Tasks : phase'[u] = "queued" <=> phase[u] = "queued"
      BY <1>4, <1>5
    <3> QED
      BY <1>2, <3>1, SameQueues
  <2>2. SlotsExactIn(lanes, phase', taskGeneration)
    <3>1. \A u \in Tasks : phase'[u] = "running" <=> phase[u] = "running"
      BY <1>4, <1>5
    <3> QED
      BY <1>2, <3>1 DEF Sound, SlotsExactIn
  <2>3. FifoIn(phase', enqueuedAt)
    BY <1>2, <1>4 DEF Sound, FifoIn, Finished
  <2> QED
    BY <1>2, <1>3, <2>1, <2>2, <2>3 DEF Sound
<1>7. SnapshotStarted' /\ DrainedIsTrue'
  <2>1. \A k \in Lanes : lanes[k].generation \in Nat
    BY <1>2 DEF Sound, ProperLanes, LaneState
  <2>2. \A u \in Tasks : phase[u] \in {"running"} \cup Finished => phase'[u] = phase[u]
    BY <1>5 DEF Finished
  <2> QED
    BY <1>1, <2>1, <2>2, SnapshotKeeps
<1>8. Numbered'
  BY <1>1, <1>4 DEF IInv, Numbered
<1>9. IInv'
  BY <1>1, <1>3, <1>6, <1>7, <1>8 DEF IInv, TypeOK
<1>10. StartsAreWithinCap /\ EdgesAreKept
  BY <1>1, <1>3 DEF StartsAreWithinCap, EdgesAreKept,
                    Lifecycle!MayBecome, Lifecycle!NumbersArrival
<1> QED
  BY <1>9, <1>10 DEF StepIsProper

\* A snapshot holds running tasks; one that reports `drained` holds none, or
\* only tasks that have left the slots since.
LEMMA WaiterKeeps ==
  ASSUME IInv, WaitForActiveTasks \/ Poll
  PROVE  StepIsProper
<1>1. UNCHANGED << lanes, gatewayDraining, phase, taskGeneration, enqueuedAt, now, resets >>
  BY DEF WaitForActiveTasks, Poll
<1>2. \A t \in ActiveTasks : t \in Tasks /\ phase[t] = "running"
  BY DEF ActiveTasks, IInv, Sound, SlotsExactIn
<1>3. SnapshotStarted'
  <2>1. CASE WaitForActiveTasks
    <3>1. waiter'.activeAtStart = ActiveTasks
      BY <2>1 DEF WaitForActiveTasks
    <3> QED
      BY <1>1, <1>2, <3>1 DEF SnapshotStarted
  <2>2. CASE Poll
    <3>1. waiter'.activeAtStart = waiter.activeAtStart
      BY <2>2 DEF Poll, IInv, TypeOK
    <3> QED
      BY <1>1, <3>1 DEF SnapshotStarted, IInv
  <2> QED
    BY <2>1, <2>2
<1>4. DrainedIsTrue'
  <2>1. SUFFICES ASSUME waiter'.state = "drained", NEW t \in waiter'.activeAtStart
                 PROVE  phase[t] \in Finished \/ taskGeneration[t] < lanes[LaneOf[t]].generation
    BY <1>1 DEF DrainedIsTrue
  <2>2. CASE WaitForActiveTasks
    <3>1. ActiveTasks = {} /\ waiter'.activeAtStart = ActiveTasks
      BY <2>1, <2>2 DEF WaitForActiveTasks
    <3> QED
      BY <2>1, <3>1
  <2>3. CASE Poll
    <3>1. t \in waiter.activeAtStart /\ waiter.activeAtStart \cap ActiveTasks = {}
      BY <2>1, <2>3 DEF Poll, IInv, TypeOK
    <3>2. /\ t \in Tasks /\ LaneOf[t] \in Lanes
          /\ phase[t] \in {"running"} \cup Finished
      BY <3>1, LaneOfAssumption DEF IInv, TypeOK, SnapshotStarted
    <3>3. t \notin lanes[LaneOf[t]].active
      BY <3>1, <3>2 DEF ActiveTasks
    <3>4. phase[t] = "running" => taskGeneration[t] # lanes[LaneOf[t]].generation
      BY <3>2, <3>3 DEF IInv, Sound, SlotsExactIn
    <3>5. /\ taskGeneration[t] \in Nat /\ lanes[LaneOf[t]].generation \in Nat
          /\ taskGeneration[t] <= lanes[LaneOf[t]].generation
      BY <3>2 DEF IInv, Sound, GenerationsPast, ProperLanes, LaneState
    <3> QED
      BY <3>2, <3>4, <3>5
  <2> QED
    BY <2>2, <2>3
<1>5. TypeOK'
  <2>1. ActiveTasks \subseteq Tasks
    BY <1>2
  <2>2. waiter' \in [ state : {"none", "polling", "drained", "timedOut"},
                      activeAtStart : SUBSET Tasks ]
    BY <2>1 DEF WaitForActiveTasks, Poll, IInv, TypeOK
  <2> QED
    BY <1>1, <2>2 DEF IInv, TypeOK
<1>6. Numbered' /\ (\A l \in Lanes : NoSlotWasted(l, lanes'))
  BY <1>1 DEF IInv, Numbered
<1>7. Sound(lanes', phase', taskGeneration', enqueuedAt')
  BY <1>1 DEF IInv
<1>8. StartsAreWithinCap /\ EdgesAreKept
  BY <1>1 DEF StartsAreWithinCap, EdgesAreKept, Lifecycle!MayBecome, Lifecycle!NumbersArrival
<1> QED
  BY <1>3, <1>4, <1>5, <1>6, <1>7, <1>8 DEF IInv, StepIsProper

\* A step that changes no variable the invariant reads, except the drain flag.
LEMMA MarkDrainingKeeps ==
  ASSUME IInv, MarkDraining \/ UNCHANGED vars
  PROVE  StepIsProper
<1>1. /\ UNCHANGED << lanes, phase, taskGeneration, enqueuedAt, now, resets, waiter >>
      /\ gatewayDraining' \in BOOLEAN
  BY DEF MarkDraining, vars, IInv, TypeOK
<1>2. IInv'
  BY <1>1 DEF IInv, TypeOK, Numbered, SnapshotStarted, DrainedIsTrue
<1>3. StartsAreWithinCap /\ EdgesAreKept
  BY <1>1 DEF StartsAreWithinCap, EdgesAreKept, Lifecycle!MayBecome, Lifecycle!NumbersArrival
<1> QED
  BY <1>2, <1>3 DEF StepIsProper

\* Every step preserves the invariant, starts commands within the caps only and
\* moves commands along the edges of their life.
THEOREM StepIsAlwaysProper == IInv /\ [Next]_vars => StepIsProper
<1> SUFFICES ASSUME IInv, [Next]_vars PROVE StepIsProper
  OBVIOUS
<1>1. CASE \E t \in Tasks : Enqueue(t) \/ Refuse(t)
  BY <1>1, EnqueueKeeps, RefuseKeeps
<1>2. CASE \E t \in Tasks, outcome \in Finished : Finish(t, outcome)
  BY <1>2, FinishCurrentKeeps, FinishStaleKeeps
<1>3. CASE \E l \in Lanes : Clear(l)
  BY <1>3, ClearKeeps
<1>4. CASE \E l \in Lanes, cap \in Caps : SetConcurrency(l, cap)
  BY <1>4, SetConcurrencyKeeps
<1>5. CASE MarkDraining \/ UNCHANGED vars
  BY <1>5, MarkDrainingKeeps
<1>6. CASE ResetAll
  BY <1>6, ResetAllKeeps
<1>7. CASE WaitForActiveTasks \/ Poll
  BY <1>7, WaiterKeeps
<1> QED
  BY <1>1, <1>2, <1>3, <1>4, <1>5, <1>6, <1>7 DEF Next

\* The inductive invariant holds in every reachable state.
THEOREM Invariance == Spec => []IInv
<1>1. IInv /\ [Next]_vars => IInv'
  BY StepIsAlwaysProper DEF StepIsProper
<1> QED
  BY <1>1, InitIInv, PTL DEF Spec

-----------------------------------------------------------------------------
\* Every variable of the queue keeps its type, however many commands there are.
THEOREM TypeCorrectness == Spec => []TypeOK
<1>1. IInv => TypeOK
  BY DEF IInv
<1> QED
  BY <1>1, Invariance, PTL

\* No slot leaks and none is freed twice, across completions of any generation,
\* resets, clears and changes of the cap.
THEOREM SlotsAreExactHolds == Spec => []SlotsAreExact
<1>1. IInv => SlotsAreExact
  BY DEF IInv, Sound, SlotsExactIn, SlotsAreExact
<1> QED
  BY <1>1, Invariance, PTL

\* A lane never has a waiting command beside a free slot.
THEOREM NoLostWakeupHolds == Spec => []NoLostWakeup
<1>1. IInv => NoLostWakeup
  BY DEF IInv, NoSlotWasted, NoLostWakeup
<1> QED
  BY <1>1, Invariance, PTL

\* Commands of a lane are started in the order in which they were accepted.
THEOREM FifoStartHolds == Spec => []FifoStart
<1>1. IInv => FifoStart
  BY DEF IInv, Sound, FifoIn, FifoStart
<1> QED
  BY <1>1, Invariance, PTL

\* waitForActiveTasks reports `drained` only when it is true.
THEOREM DrainedIsTrueHolds == Spec => []DrainedIsTrue
<1>1. IInv => DrainedIsTrue
  BY DEF IInv
<1> QED
  BY <1>1, Invariance, PTL


\* No step starts a command beyond the cap in force.
THEOREM StartsWithinCapHolds == Spec => StartsWithinCap
<1>1. IInv /\ [Next]_vars => [StartsAreWithinCap]_vars
  BY StepIsAlwaysProper DEF StepIsProper
<1>2. Spec => [][StartsAreWithinCap]_vars
  BY <1>1, Invariance, PTL DEF Spec
<1> QED
  BY <1>2 DEF StartsWithinCap, StartsAreWithinCap

\* The queue of lanes implements the life of a command that callers rely on:
\* its states and its steps are states and steps of CommandLifecycle.
THEOREM LifecycleRefinement == Spec => LifecycleSpec
<1>1. Init => Lifecycle!LifecycleInit
  BY DEF Init, Lifecycle!LifecycleInit
<1>2. IInv /\ [Next]_vars => [Lifecycle!LifecycleNext]_(Lifecycle!lifecycleVars)
  <2>1. SUFFICES ASSUME IInv, [Next]_vars, NEW t \in Tasks
                 PROVE  /\ Lifecycle!MayBecome(phase[t], phase'[t])
                        /\ Lifecycle!NumbersArrival(t)
                        /\ Lifecycle!Starts(t) => Lifecycle!OvertakesNobody(t)
    BY DEF Lifecycle!LifecycleNext
  <2>2. IInv' /\ EdgesAreKept
    BY <2>1, StepIsAlwaysProper DEF StepIsProper
  <2>3. ASSUME Lifecycle!Starts(t), NEW u \in Tasks, LaneOf[u] = LaneOf[t],
               Lifecycle!Accepted(u), enqueuedAt[u] < enqueuedAt'[t], phase'[u] = "queued"
        PROVE  FALSE
    <3>1. enqueuedAt'[t] < enqueuedAt'[u]
      BY <2>2, <2>3 DEF IInv, Sound, FifoIn, Lifecycle!Starts
    <3>2. phase[u] # "idle"
      BY <2>1, <2>3 DEF IInv, Numbered, Lifecycle!Accepted
    <3>3. enqueuedAt'[u] = enqueuedAt[u]
      BY <2>2, <3>2 DEF EdgesAreKept, Lifecycle!NumbersArrival
    <3>4. enqueuedAt[u] \in Nat /\ enqueuedAt'[t] \in Nat
      BY <2>1, <2>2 DEF IInv, Sound
    <3> QED
      BY <2>3, <3>1, <3>3, <3>4
  <2>4. Lifecycle!Starts(t) => Lifecycle!OvertakesNobody(t)
    BY <2>3 DEF Lifecycle!OvertakesNobody
  <2> QED
    BY <2>2, <2>4 DEF EdgesAreKept
<1> QED
  BY <1>1, <1>2, Invariance, PTL DEF Spec, LifecycleSpec, Lifecycle!LifecycleSpec
=============================================================================
