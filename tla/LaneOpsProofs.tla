---------------------------- MODULE LaneOpsProofs ----------------------------
(***************************************************************************)
(* What the operators of LaneOps on one lane return, for every lane: how   *)
(* many entries pump takes, which ones, and what it leaves behind.  The    *)
(* proofs about CommandQueue and GatewayRuns cite these lemmas and never   *)
(* look inside PumpCount.                                                  *)
(***************************************************************************)
EXTENDS LaneOps, FiniteSetTheorems, SequenceTheorems, TLAPS

\* No entry is in the queue twice.
NoRepetition(q) == \A i, j \in 1 .. Len(q) : q[i] = q[j] => i = j

\* A lane as the queue keeps it: well typed, and with finitely many tasks.
ProperLane(ls, T) == ls \in LaneState(T) /\ IsFiniteSet(ls.active)

\* The while loop takes as many entries as there is room for: it stops short of
\* the end of the queue only when the slots are used up, and never overshoots.
LEMMA PumpCountBounds ==
  ASSUME NEW T, NEW ls, ProperLane(ls, T)
  PROVE  /\ PumpCount(ls) \in 0 .. Len(ls.queue)
         /\ PumpCount(ls) < Len(ls.queue)
              => Cardinality(ls.active) + PumpCount(ls) >= ls.maxConcurrent
         /\ PumpCount(ls) > 0
              => Cardinality(ls.active) + PumpCount(ls) <= ls.maxConcurrent
<1>1. Cardinality(ls.active) \in Nat
  BY FS_CardinalityType DEF ProperLane
<1>2. Len(ls.queue) \in Nat /\ ls.maxConcurrent \in Nat
  BY LenProperties DEF ProperLane, LaneState
<1> QED
  BY <1>1, <1>2 DEF PumpCount

\* What is left in the queue is its tail, in the same order.
LEMMA PumpQueue ==
  ASSUME NEW T, NEW ls, ProperLane(ls, T)
  PROVE  /\ Pump(ls).queue \in Seq(T)
         /\ Len(Pump(ls).queue) = Len(ls.queue) - PumpCount(ls)
         /\ \A i \in 1 .. Len(Pump(ls).queue) :
              Pump(ls).queue[i] = ls.queue[PumpCount(ls) + i]
<1> DEFINE n == PumpCount(ls)
           m == Len(ls.queue)
<1>1. n \in 0 .. m
  BY PumpCountBounds
<1>2. ls.queue \in Seq(T) /\ m \in Nat
  BY LenProperties DEF ProperLane, LaneState
<1>3. \A i \in n + 1 .. m : ls.queue[i] \in T
  BY <1>1, <1>2, ElementOfSeq
<1>4. Pump(ls).queue = SubSeq(ls.queue, n + 1, m)
  BY DEF Pump, ProperLane, LaneState
<1> HIDE DEF n, m
<1>5. /\ SubSeq(ls.queue, n + 1, m) \in Seq(T)
      /\ Len(SubSeq(ls.queue, n + 1, m)) = IF n + 1 <= m THEN m - (n + 1) + 1 ELSE 0
      /\ \A i \in 1 .. m - (n + 1) + 1 : SubSeq(ls.queue, n + 1, m)[i] = ls.queue[n + 1 + i - 1]
  <2>1. n + 1 \in Int /\ m \in Int
    BY <1>1, <1>2
  <2> QED
    BY <1>3, <2>1, SubSeqProperties
<1>6. Len(SubSeq(ls.queue, n + 1, m)) = m - n
  BY <1>1, <1>2, <1>5
<1>7. \A i \in 1 .. m - n : SubSeq(ls.queue, n + 1, m)[i] = ls.queue[n + i]
  <2>1. TAKE i \in 1 .. m - n
  <2>2. i \in 1 .. m - (n + 1) + 1 /\ n + 1 + i - 1 = n + i
    BY <1>1, <1>2
  <2> QED
    BY <1>5, <2>2
<1> QED
  BY <1>4, <1>5, <1>6, <1>7 DEF n, m

\* pump leaves the cap and the generation alone and adds what it started.
LEMMA PumpFields ==
  ASSUME NEW T, NEW ls, ProperLane(ls, T)
  PROVE  /\ Pump(ls).active = ls.active \cup Pumped(ls)
         /\ Pump(ls).maxConcurrent = ls.maxConcurrent
         /\ Pump(ls).generation = ls.generation
BY DEF Pump, ProperLane, LaneState

\* The entries it starts are entries of the queue, finitely many.
LEMMA PumpedIsFinite ==
  ASSUME NEW T, NEW ls, ProperLane(ls, T)
  PROVE  /\ Pumped(ls) \subseteq T
         /\ Pumped(ls) \subseteq Queued(ls)
         /\ IsFiniteSet(Pumped(ls))
<1> DEFINE n == PumpCount(ls)
<1>1. n \in 0 .. Len(ls.queue) /\ Len(ls.queue) \in Nat
  BY PumpCountBounds, LenProperties DEF ProperLane, LaneState
<1>2. \A i \in 1 .. n : ls.queue[i] \in T
  BY <1>1, ElementOfSeq DEF ProperLane, LaneState
<1>3. IsFiniteSet(1 .. n)
  BY <1>1, FS_Interval
<1>4. [i \in 1 .. n |-> ls.queue[i]] \in Surjection(1 .. n, Pumped(ls))
  BY DEF Surjection, Pumped
<1>5. IsFiniteSet(Pumped(ls))
  BY <1>3, <1>4, FS_Surjection
<1> QED
  BY <1>1, <1>2, <1>5 DEF Pumped, Queued

\* The lane stays well typed, with finitely many tasks.
LEMMA PumpKeepsProper ==
  ASSUME NEW T, NEW ls, ProperLane(ls, T)
  PROVE  ProperLane(Pump(ls), T)
<1>1. Pump(ls).active \subseteq T /\ IsFiniteSet(Pump(ls).active)
  <2>1. Pump(ls).active = ls.active \cup Pumped(ls)
    BY PumpFields
  <2>2. Pumped(ls) \subseteq T /\ IsFiniteSet(Pumped(ls))
    BY PumpedIsFinite
  <2>3. ls.active \subseteq T /\ IsFiniteSet(ls.active)
    BY DEF ProperLane, LaneState
  <2> QED
    BY <2>1, <2>2, <2>3, FS_Union
<1>2. Pump(ls).queue \in Seq(T)
  BY PumpQueue
<1> QED
  BY <1>1, <1>2 DEF Pump, ProperLane, LaneState

\* An entry of the queue is started if it is among the first ones, and is left otherwise,
\* that many places further ahead.  Nothing else is left.
LEMMA PumpSplits ==
  ASSUME NEW T, NEW ls, ProperLane(ls, T)
  PROVE  /\ \A i \in 1 .. Len(ls.queue) :
              \/ i <= PumpCount(ls) /\ ls.queue[i] \in Pumped(ls)
              \/ /\ i > PumpCount(ls) /\ i - PumpCount(ls) \in 1 .. Len(Pump(ls).queue)
                 /\ Pump(ls).queue[i - PumpCount(ls)] = ls.queue[i]
         /\ \A i \in 1 .. Len(Pump(ls).queue) :
              /\ PumpCount(ls) + i \in 1 .. Len(ls.queue)
              /\ Pump(ls).queue[i] = ls.queue[PumpCount(ls) + i]
         /\ \A t \in Pumped(ls) :
              \E i \in 1 .. Len(ls.queue) : i <= PumpCount(ls) /\ t = ls.queue[i]
         /\ Len(ls.queue) \in Nat /\ Len(Pump(ls).queue) \in Nat /\ PumpCount(ls) \in Nat
<1>1. PumpCount(ls) \in 0 .. Len(ls.queue) /\ Len(ls.queue) \in Nat
  BY PumpCountBounds, LenProperties DEF ProperLane, LaneState
<1>2. /\ Len(Pump(ls).queue) = Len(ls.queue) - PumpCount(ls)
      /\ \A i \in 1 .. Len(Pump(ls).queue) : Pump(ls).queue[i] = ls.queue[PumpCount(ls) + i]
  BY PumpQueue
<1>3. \A i \in 1 .. Len(ls.queue) : i <= PumpCount(ls) => ls.queue[i] \in Pumped(ls)
  BY <1>1 DEF Pumped
<1>4. \A t \in Pumped(ls) : \E i \in 1 .. Len(ls.queue) : i <= PumpCount(ls) /\ t = ls.queue[i]
  BY <1>1 DEF Pumped
<1>5. ASSUME NEW i \in 1 .. Len(ls.queue), i > PumpCount(ls)
      PROVE  /\ i - PumpCount(ls) \in 1 .. Len(Pump(ls).queue)
             /\ Pump(ls).queue[i - PumpCount(ls)] = ls.queue[i]
  <2>1. i - PumpCount(ls) \in 1 .. Len(Pump(ls).queue) /\ PumpCount(ls) + (i - PumpCount(ls)) = i
    BY <1>1, <1>2, <1>5
  <2> QED
    BY <1>2, <2>1
<1>6. \A i \in 1 .. Len(Pump(ls).queue) : PumpCount(ls) + i \in 1 .. Len(ls.queue)
  BY <1>1, <1>2
<1>7. \A i \in 1 .. Len(ls.queue) : i <= PumpCount(ls) \/ i > PumpCount(ls)
  BY <1>1
<1> HIDE DEF Pump, PumpCount
<1> QED
  BY <1>1, <1>2, <1>3, <1>4, <1>5, <1>6, <1>7

\* Every entry that pump starts takes a slot of its own.
LEMMA PumpCardinality ==
  ASSUME NEW T, NEW ls, ProperLane(ls, T),
         NoRepetition(ls.queue), Queued(ls) \cap ls.active = {}
  PROVE  Cardinality(Pump(ls).active) = Cardinality(ls.active) + PumpCount(ls)
<1> DEFINE n == PumpCount(ls)
           f == [i \in 1 .. n |-> ls.queue[i]]
<1>1. n \in Nat /\ n \in 0 .. Len(ls.queue) /\ Len(ls.queue) \in Nat
  BY PumpCountBounds, LenProperties DEF ProperLane, LaneState
<1>2. f \in Bijection(1 .. n, Pumped(ls))
  <2>1. f \in Surjection(1 .. n, Pumped(ls))
    BY DEF Surjection, Pumped
  <2>2. f \in Injection(1 .. n, Pumped(ls))
    <3>1. f \in [1 .. n -> Pumped(ls)]
      BY DEF Pumped
    <3>2. \A i, j \in 1 .. n : f[i] = f[j] => i = j
      BY <1>1 DEF NoRepetition
    <3> QED
      BY <3>1, <3>2 DEF Injection, IsInjective
  <2> QED
    BY <2>1, <2>2 DEF Bijection
<1>3. Cardinality(Pumped(ls)) = n
  BY <1>1, <1>2, FS_CountingElements DEF ExistsBijection
<1>4. ls.active \cap Pumped(ls) = {}
  BY PumpedIsFinite
<1>5. Cardinality(ls.active \cup Pumped(ls)) = Cardinality(ls.active) + n - 0
  <2>1. IsFiniteSet(ls.active) /\ IsFiniteSet(Pumped(ls))
    BY PumpedIsFinite DEF ProperLane
  <2>2. Cardinality(ls.active \cap Pumped(ls)) = 0
    BY <1>4, FS_EmptySet
  <2> HIDE DEF n
  <2> QED
    BY <1>3, <2>1, <2>2, FS_Union
<1>6. Cardinality(ls.active) \in Nat
  BY FS_CardinalityType DEF ProperLane
<1>7. Pump(ls).active = ls.active \cup Pumped(ls)
  BY PumpFields
<1> HIDE DEF f
<1> QED
  BY <1>1, <1>5, <1>6, <1>7

\* After a pump, a lane with entries left has no free slot; and a pump that
\* started something has not gone beyond the cap.
LEMMA PumpUsesSlots ==
  ASSUME NEW T, NEW ls, ProperLane(ls, T),
         NoRepetition(ls.queue), Queued(ls) \cap ls.active = {}
  PROVE  /\ Pump(ls).queue # << >> => Cardinality(Pump(ls).active) >= Pump(ls).maxConcurrent
         /\ Pumped(ls) # {} => Cardinality(Pump(ls).active) <= Pump(ls).maxConcurrent
<1>1. /\ PumpCount(ls) \in Nat
      /\ Len(ls.queue) \in Nat
      /\ PumpCount(ls) <= Len(ls.queue)
  BY PumpCountBounds, LenProperties DEF ProperLane, LaneState
<1>2. Pump(ls).queue # << >> => PumpCount(ls) < Len(ls.queue)
  <2>1. Pump(ls).queue # << >> => Len(Pump(ls).queue) \in Nat \ {0}
    BY PumpQueue, EmptySeq
  <2> QED
    BY <1>1, <2>1, PumpQueue
<1>3. Pumped(ls) # {} => PumpCount(ls) > 0
  BY <1>1 DEF Pumped
<1> QED
  BY <1>1, <1>2, <1>3, PumpCountBounds, PumpCardinality, PumpFields

\* Appending keeps a lane well typed and adds the entry at the end.
LEMMA PushProper ==
  ASSUME NEW T, NEW ls, ProperLane(ls, T), NEW t \in T
  PROVE  /\ ProperLane(Push(ls, t), T)
         /\ Push(ls, t).active = ls.active
         /\ Push(ls, t).maxConcurrent = ls.maxConcurrent
         /\ Push(ls, t).generation = ls.generation
         /\ Len(Push(ls, t).queue) = Len(ls.queue) + 1
         /\ \A i \in 1 .. Len(ls.queue) : Push(ls, t).queue[i] = ls.queue[i]
         /\ Push(ls, t).queue[Len(ls.queue) + 1] = t
<1>1. Push(ls, t).queue = Append(ls.queue, t)
  BY DEF Push, ProperLane, LaneState
<1>2. /\ Append(ls.queue, t) \in Seq(T)
      /\ Len(Append(ls.queue, t)) = Len(ls.queue) + 1
      /\ \A i \in 1 .. Len(ls.queue) : Append(ls.queue, t)[i] = ls.queue[i]
      /\ Append(ls.queue, t)[Len(ls.queue) + 1] = t
  BY AppendProperties DEF ProperLane, LaneState
<1>3. /\ Push(ls, t).active = ls.active
      /\ Push(ls, t).maxConcurrent = ls.maxConcurrent
      /\ Push(ls, t).generation = ls.generation
  BY DEF Push, ProperLane, LaneState
<1>4. ProperLane(Push(ls, t), T)
  BY <1>1, <1>2 DEF Push, ProperLane, LaneState
<1> QED
  BY <1>1, <1>2, <1>3, <1>4

\* A reset empties the slots and counts the generation up, and nothing else.
LEMMA ResetLaneProper ==
  ASSUME NEW T, NEW ls \in LaneState(T)
  PROVE  /\ ResetLane(ls).queue = ls.queue
         /\ ResetLane(ls).active = {}
         /\ ResetLane(ls).generation = ls.generation + 1
         /\ ls.generation \in Nat
         /\ ResetLane(ls) \in LaneState(T)
<1> DEFINE older == [ls EXCEPT !.generation = @ + 1]
<1>1. /\ older \in LaneState(T)
      /\ older.queue = ls.queue /\ older.generation = ls.generation + 1
      /\ ls.generation \in Nat
  BY DEF LaneState
<1>2. ResetLane(ls) = [older EXCEPT !.active = {}]
  BY DEF ResetLane
<1> HIDE DEF older
<1> QED
  BY <1>1, <1>2 DEF LaneState
=============================================================================
