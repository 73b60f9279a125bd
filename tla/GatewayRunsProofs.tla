-------------------------- MODULE GatewayRunsProofs --------------------------
(***************************************************************************)
(* Proofs about GatewayRuns for any sessions, any number of runs and       *)
(* signals and any cap of the global lane: the types, the order of the     *)
(* runs of a session, that one run works on a session unless a drain timed *)
(* out, that a gateway which serves accepts work, and that the lanes never *)
(* deadlock.                                                               *)
(*                                                                         *)
(* Every action of a run ends in Drain, which pumps session lanes into the *)
(* global lane and then the global lane.  The parts of the invariant that  *)
(* speak of the lanes take them, the phases and the sessions as arguments: *)
(* an action leaves them sound for what it hands to Drain, SessionsKeep    *)
(* takes them past the session lanes, and GlobalKeeps past the global one. *)
(***************************************************************************)
EXTENDS GatewayRuns, LaneOpsProofs

-----------------------------------------------------------------------------
(* The invariant.                                                          *)

\* Runs that have left the queue of their session, runs that have begun to work, and
\* runs that have not ended although they left that queue.
Started == {"pending", "executing", "unwinding", "rejecting", "settled", "dropped"}
Begun == {"executing", "unwinding", "settled"}
Working(ph) == { r \in Runs : ph[r] \in {"pending", "executing"} }

\* The queue of a session lane holds the runs of the session that are queued, in the
\* order of their arrival, and the lane has one slot.
SessionLane(s, ls, ph, se) ==
  /\ ls[s].maxConcurrent = 1
  /\ \A r, q \in ls[s].active : r = q
  /\ \A i \in 1 .. Len(ls[s].queue) : se[ls[s].queue[i]] = s /\ ph[ls[s].queue[i]] = "queued"
  /\ \A i, j \in 1 .. Len(ls[s].queue) : i < j => ls[s].queue[i] < ls[s].queue[j]

\* The queue of the global lane holds the runs that are pending.  Those of one session
\* are in the order of their arrival, although a reset may mix the sessions.
GlobalLane(ls, ph, se) ==
  /\ \A i \in 1 .. Len(ls[Main].queue) : ph[ls[Main].queue[i]] = "pending"
  /\ \A i, j \in 1 .. Len(ls[Main].queue) :
       i < j => se[ls[Main].queue[i]] # se[ls[Main].queue[j]] \/ ls[Main].queue[i] < ls[Main].queue[j]

EachIsInItsQueue(ls, ph, se) ==
  \A r \in Runs :
    /\ ph[r] = "queued" => se[r] \in Sessions /\ r \in Queued(ls[se[r]])
    /\ ph[r] = "pending" => se[r] \in Sessions /\ r \in Queued(ls[Main])
    /\ ph[r] # "idle" => se[r] \in Sessions

\* No run of a session overtakes another, in either queue.
InOrder(ph, se) ==
  \A r, q \in Runs :
    r < q /\ se[r] = se[q] =>
      /\ ph[q] \in Started => ph[r] # "queued"
      /\ ph[q] \in Begun => ph[r] # "pending"

Typed(ls, ph, se) ==
  /\ ls \in [Lanes -> LaneState(Runs)]
  /\ ph \in [Runs -> Phases]
  /\ se \in [Runs -> Lanes]

Sound(ls, ph, se) ==
  /\ Typed(ls, ph, se)
  /\ \A s \in Sessions : SessionLane(s, ls, ph, se)
  /\ GlobalLane(ls, ph, se)
  /\ EachIsInItsQueue(ls, ph, se)
  /\ InOrder(ph, se)

\* Runs are numbered as they arrive.
Unseen(ph) == { r \in Runs : ph[r] = "idle" }
Numbered == \A r, q \in Runs : r < q /\ r \in Unseen(phase) => q \in Unseen(phase)

\* A run that works holds the slot of its session.
HoldsSlot(ls, ph, se) == \A r \in Working(ph) : r \in ls[se[r]].active

\* A restart under way has set the drain flag, and the flag is reset at its end unless
\* the restart found no promise to resolve.
Restarting == shutdown \in {"draining", "closing", "releasing", "relocking"}
Closing == shutdown \in {"closing", "releasing", "relocking"}
FlagFollowsRestart ==
  /\ Restarting => gatewayDraining
  /\ shutdown = "no" => ~gatewayDraining \/ missed

\* As long as no drain has timed out: what works holds its slot, so that the drain waits
\* for it, and nothing works when the lanes are reset.
DrainsAreComplete ==
  ~timedOut =>
    /\ HoldsSlot(lanes, phase, session)
    /\ shutdown = "draining" => Working(phase) \subseteq drain.tasks
    /\ Closing => Working(phase) = {}

IInv ==
  /\ TypeOK
  /\ Sound(lanes, phase, session)
  /\ Numbered
  /\ FlagFollowsRestart
  /\ DrainsAreComplete

-----------------------------------------------------------------------------
(* Lanes.                                                                  *)

LEMMA Constants ==
  /\ NumRuns \in Nat /\ MaxSignals \in Nat /\ MainCap \in Nat \ {0}
  /\ Main \notin Sessions /\ Main \in Lanes /\ Sessions \subseteq Lanes
  /\ Lanes = Sessions \cup {Main}
  /\ IsFiniteSet(Runs) /\ Runs \subseteq Nat
<1>1. /\ NumRuns \in Nat /\ MaxSignals \in Nat /\ MainCap \in Nat \ {0} /\ Main \notin Sessions
  BY ConstantsAssumption
<1> QED
  BY <1>1, FS_Interval DEF Lanes, Runs

LEMMA LanesAreProper ==
  ASSUME NEW ls, NEW ph, NEW se, Typed(ls, ph, se), NEW l \in Lanes
  PROVE  ProperLane(ls[l], Runs)
<1>1. ls[l] \in LaneState(Runs)
  BY DEF Typed
<1>2. ls[l].active \subseteq Runs
  BY <1>1 DEF LaneState
<1> QED
  BY <1>1, <1>2, Constants, FS_Subset DEF ProperLane

\* A lane with one slot starts one run at most, and only if the slot is free.
LEMMA OneHead ==
  ASSUME NEW ls, ProperLane(ls, Runs), ls.maxConcurrent = 1
  PROVE  /\ PumpCount(ls) <= 1
         /\ PumpCount(ls) = 1 => ls.active = {}
<1>1. PumpCount(ls) \in 0 .. Len(ls.queue) /\ Len(ls.queue) \in Nat
  BY PumpCountBounds, LenProperties DEF ProperLane, LaneState
<1>2. PumpCount(ls) > 0 => Cardinality(ls.active) + PumpCount(ls) <= 1
  BY PumpCountBounds
<1>3. Cardinality(ls.active) \in Nat /\ (Cardinality(ls.active) = 0 => ls.active = {})
  BY FS_CardinalityType, FS_EmptySet DEF ProperLane
<1> QED
  BY <1>1, <1>2, <1>3

-----------------------------------------------------------------------------
(* Drain, in two steps.                                                    *)

Heads(S, ls) == UNION { Pumped(ls[s]) : s \in S }

LanesPastSessions(S, ls, draining, arrivals) ==
  [l \in Lanes |-> CASE l = Main -> IF draining THEN ls[Main]
                                     ELSE [ls[Main] EXCEPT !.queue = @ \o arrivals]
                     [] l \in S -> Pump(ls[l])
                     [] OTHER -> ls[l]]

PhasesPastSessions(S, ls, ph, draining) ==
  [r \in Runs |-> IF r \in Heads(S, ls) THEN IF draining THEN "rejecting" ELSE "pending"
                                         ELSE ph[r]]

LanesPastGlobal(ls) == [l \in Lanes |-> IF l = Main THEN Pump(ls[Main]) ELSE ls[l]]
PhasesPastGlobal(ls, ph) == [r \in Runs |-> IF r \in Pumped(ls[Main]) THEN "executing" ELSE ph[r]]

LEMMA DrainInTwoSteps ==
  ASSUME NEW S \in SUBSET Sessions, NEW ls, NEW ph, NEW draining \in BOOLEAN, NEW arrivals,
         Drain(S, ls, ph, draining, arrivals)
  PROVE  LET past == LanesPastSessions(S, ls, draining, arrivals)
         IN  /\ lanes' = LanesPastGlobal(past)
             /\ phase' = PhasesPastGlobal(past, PhasesPastSessions(S, ls, ph, draining))
<1> DEFINE past == LanesPastSessions(S, ls, draining, arrivals)
<1>1. Main \in Lanes /\ Main \notin S
  BY Constants
<1>2. past[Main] = IF draining THEN ls[Main] ELSE [ls[Main] EXCEPT !.queue = @ \o arrivals]
  BY <1>1 DEF LanesPastSessions
<1>3. \A l \in Lanes : l # Main => past[l] = IF l \in S THEN Pump(ls[l]) ELSE ls[l]
  BY <1>1 DEF LanesPastSessions
<1>4. lanes' = LanesPastGlobal(past)
  <2>1. lanes' = [l \in Lanes |-> CASE l = Main -> Pump(past[Main])
                                    [] l \in S -> Pump(ls[l])
                                    [] OTHER -> ls[l]]
    BY <1>2 DEF Drain
  <2> HIDE DEF past
  <2>2. \A l \in Lanes : (CASE l = Main -> Pump(past[Main])
                            [] l \in S -> Pump(ls[l])
                            [] OTHER -> ls[l])
                         = IF l = Main THEN Pump(past[Main]) ELSE past[l]
    BY <1>1, <1>3
  <2> QED
    BY <2>1, <2>2 DEF LanesPastGlobal
<1>5. phase' = PhasesPastGlobal(past, PhasesPastSessions(S, ls, ph, draining))
  <2>1. phase' = [r \in Runs |->
                   CASE r \in Pumped(past[Main]) -> "executing"
                     [] r \in Heads(S, ls) \ Pumped(past[Main]) -> IF draining THEN "rejecting" ELSE "pending"
                     [] OTHER -> ph[r]]
    BY <1>2 DEF Drain, Heads
  <2> HIDE DEF past
  <2> QED
    BY <2>1 DEF PhasesPastGlobal, PhasesPastSessions
<1> QED
  BY <1>4, <1>5

-----------------------------------------------------------------------------
(* Past the session lanes.                                                 *)

\* What is handed to Drain: sound lanes, some of the session lanes to pump, and an order
\* in which their heads reach the global lane.
Ready(S, ls, ph, se, draining, arrivals) ==
  /\ Sound(ls, ph, se)
  /\ S \subseteq Sessions
  /\ draining \in BOOLEAN
  /\ arrivals \in HeadOrders(S, ls)

\* The head of a session lane: it was queued, is of that session, and stands before all
\* that is left in the queue.
LEMMA HeadIsFirst ==
  ASSUME NEW ls, NEW ph, NEW se, Sound(ls, ph, se),
         NEW s \in Sessions, NEW r \in Pumped(ls[s])
  PROVE  /\ r \in Runs /\ ph[r] = "queued" /\ se[r] = s
         /\ \A i \in 1 .. Len(ls[s].queue) : ls[s].queue[i] = r \/ r < ls[s].queue[i]
         /\ \A q \in Pumped(ls[s]) : q = r
         /\ ls[s].active = {}
         /\ \A i \in 1 .. Len(Pump(ls[s]).queue) : r < Pump(ls[s]).queue[i]
<1> DEFINE lane == ls[s]
<1>1. ProperLane(lane, Runs) /\ lane.maxConcurrent = 1
  BY LanesAreProper, Constants DEF Sound, SessionLane
<1>2. PumpCount(lane) <= 1 /\ (PumpCount(lane) = 1 => lane.active = {})
  BY <1>1, OneHead
<1>3. SessionLane(s, ls, ph, se)
  BY DEF Sound
<1> HIDE DEF lane
<1>4. /\ Len(lane.queue) \in Nat /\ Len(Pump(lane).queue) \in Nat /\ PumpCount(lane) \in Nat
      /\ \A t \in Pumped(lane) :
           \E i \in 1 .. Len(lane.queue) : i <= PumpCount(lane) /\ t = lane.queue[i]
      /\ \A i \in 1 .. Len(Pump(lane).queue) :
           /\ PumpCount(lane) + i \in 1 .. Len(lane.queue)
           /\ Pump(lane).queue[i] = lane.queue[PumpCount(lane) + i]
  BY <1>1, PumpSplits
<1>5. \A t \in Pumped(lane) : 1 \in 1 .. Len(lane.queue) /\ PumpCount(lane) = 1 /\ t = lane.queue[1]
  <2> TAKE t \in Pumped(lane)
  <2>1. PICK i \in 1 .. Len(lane.queue) : i <= PumpCount(lane) /\ t = lane.queue[i]
    BY <1>4
  <2>2. i = 1 /\ PumpCount(lane) = 1
    BY <1>2, <1>4, <2>1
  <2> QED
    BY <1>4, <2>1, <2>2
<1>6. r = lane.queue[1] /\ 1 \in 1 .. Len(lane.queue) /\ PumpCount(lane) = 1
  BY <1>5 DEF lane
<1>7. r \in Runs
  BY <1>1, PumpedIsFinite DEF lane
<1>8. \A i \in 1 .. Len(lane.queue) : i = 1 \/ r < lane.queue[i]
  BY <1>3, <1>4, <1>6 DEF SessionLane, lane
<1>9. \A i \in 1 .. Len(Pump(lane).queue) : r < Pump(lane).queue[i]
  <2> TAKE i \in 1 .. Len(Pump(lane).queue)
  <2>1. 1 + i \in 1 .. Len(lane.queue) /\ Pump(lane).queue[i] = lane.queue[1 + i] /\ 1 + i # 1
    BY <1>4, <1>6
  <2> QED
    BY <1>8, <2>1
<1> QED
  BY <1>2, <1>3, <1>5, <1>6, <1>7, <1>8, <1>9 DEF SessionLane, lane

\* The heads arrive one by one, each once.
LEMMA Arrivals ==
  ASSUME NEW S, NEW ls, NEW ph, NEW se, Typed(ls, ph, se), S \subseteq Sessions,
         NEW arrivals, arrivals \in HeadOrders(S, ls)
  PROVE  /\ arrivals \in Seq(Runs)
         /\ Len(arrivals) \in Nat
         /\ \A i \in 1 .. Len(arrivals) : arrivals[i] \in Heads(S, ls)
         /\ \A i, j \in 1 .. Len(arrivals) : i # j => arrivals[i] # arrivals[j]
         /\ \A r \in Heads(S, ls) : \E i \in 1 .. Len(arrivals) : arrivals[i] = r
<1> DEFINE H == Heads(S, ls)
           n == Cardinality(H)
<1>1. H \subseteq Runs
  <2>1. \A s \in S : Pumped(ls[s]) \subseteq Runs
    BY LanesAreProper, PumpedIsFinite, Constants
  <2> QED
    BY <2>1 DEF Heads
<1>2. IsFiniteSet(H) /\ n \in Nat
  BY <1>1, Constants, FS_Subset, FS_CardinalityType
<1>3. arrivals \in [1 .. n -> H] /\ \A i, j \in 1 .. n : i # j => arrivals[i] # arrivals[j]
  BY DEF HeadOrders, SetToSeqs, Heads
<1> HIDE DEF H
<1>4. arrivals \in Seq(Runs) /\ Len(arrivals) = n
  <2>1. \A i \in 1 .. n : arrivals[i] \in Runs
    BY <1>1, <1>3
  <2>2. arrivals \in [1 .. n -> Runs]
    BY <1>3, <2>1
  <2> QED
    BY <1>2, <2>2
<1>5. \A r \in H : \E i \in 1 .. n : arrivals[i] = r
  <2> DEFINE A == { arrivals[i] : i \in 1 .. n }
  <2>1. arrivals \in Bijection(1 .. n, A)
    BY <1>3 DEF Bijection, Injection, Surjection, IsInjective
  <2>2. A \subseteq H
    BY <1>3
  <2>3. Cardinality(A) = n
    BY <1>2, <2>1, FS_CountingElements DEF ExistsBijection
  <2>4. A = H
    BY <1>2, <2>2, <2>3, FS_Subset
  <2> QED
    BY <2>4
<1> QED
  BY <1>2, <1>3, <1>4, <1>5 DEF H

\* What the session lanes become, and the global lane with the arrivals at its end.
LEMMA PastSessions ==
  ASSUME NEW S, NEW ls, NEW ph, NEW se, NEW draining, NEW arrivals,
         Ready(S, ls, ph, se, draining, arrivals)
  PROVE  LET past == LanesPastSessions(S, ls, draining, arrivals)
             old == ls[Main]
         IN  /\ past \in [Lanes -> LaneState(Runs)]
             /\ \A s \in Sessions : past[s] = IF s \in S THEN Pump(ls[s]) ELSE ls[s]
             /\ past[Main].active = old.active /\ past[Main].generation = old.generation
             /\ past[Main].maxConcurrent = old.maxConcurrent
             /\ Len(old.queue) \in Nat
             /\ Len(past[Main].queue) =
                  IF draining THEN Len(old.queue) ELSE Len(old.queue) + Len(arrivals)
             /\ \A i \in 1 .. Len(old.queue) : past[Main].queue[i] = old.queue[i]
             /\ ~draining => \A i \in 1 .. Len(past[Main].queue) :
                  i > Len(old.queue) =>
                    /\ i - Len(old.queue) \in 1 .. Len(arrivals)
                    /\ past[Main].queue[i] = arrivals[i - Len(old.queue)]
             /\ ~draining => \A i \in 1 .. Len(arrivals) :
                    /\ Len(old.queue) + i \in 1 .. Len(past[Main].queue)
                    /\ past[Main].queue[Len(old.queue) + i] = arrivals[i]
<1> DEFINE past == LanesPastSessions(S, ls, draining, arrivals)
           old == ls[Main]
           joined == old.queue \o arrivals
<1>1. /\ Typed(ls, ph, se) /\ S \subseteq Sessions /\ draining \in BOOLEAN
      /\ arrivals \in HeadOrders(S, ls)
  BY DEF Ready, Sound
<1>2. /\ past[Main] = IF draining THEN old ELSE [old EXCEPT !.queue = joined]
      /\ \A s \in Sessions : past[s] = IF s \in S THEN Pump(ls[s]) ELSE ls[s]
      /\ past = [l \in Lanes |-> past[l]]
  <2>1. /\ Main \in Lanes /\ Main \notin Sessions /\ Sessions \subseteq Lanes /\ Main \notin S
    BY <1>1, Constants
  <2>2. past = [l \in Lanes |-> CASE l = Main -> IF draining THEN ls[Main]
                                                 ELSE [ls[Main] EXCEPT !.queue = @ \o arrivals]
                                  [] l \in S -> Pump(ls[l])
                                  [] OTHER -> ls[l]]
    BY DEF LanesPastSessions
  <2> HIDE DEF past
  <2> QED
    BY <2>1, <2>2
<1> HIDE DEF past
<1>3. old \in LaneState(Runs) /\ old.queue \in Seq(Runs) /\ Len(old.queue) \in Nat
  BY <1>1, Constants, LenProperties DEF Typed, LaneState
<1>4. arrivals \in Seq(Runs) /\ Len(arrivals) \in Nat
  BY <1>1, Arrivals
<1>5. /\ joined \in Seq(Runs) /\ Len(joined) = Len(old.queue) + Len(arrivals)
      /\ \A i \in 1 .. Len(joined) :
           joined[i] = IF i <= Len(old.queue) THEN old.queue[i] ELSE arrivals[i - Len(old.queue)]
  BY <1>3, <1>4, ConcatProperties
<1> HIDE DEF joined
<1>6. /\ past[Main] \in LaneState(Runs)
      /\ past[Main].queue = IF draining THEN old.queue ELSE joined
      /\ past[Main].active = old.active /\ past[Main].generation = old.generation
      /\ past[Main].maxConcurrent = old.maxConcurrent
  BY <1>1, <1>2, <1>3, <1>5 DEF LaneState
<1>7. \A s \in Sessions : past[s] \in LaneState(Runs)
  BY <1>1, <1>2, LanesAreProper, PumpKeepsProper, Constants DEF ProperLane
<1>8. past \in [Lanes -> LaneState(Runs)]
  BY <1>2, <1>6, <1>7, Constants
<1> HIDE DEF old
<1>9. \A i \in 1 .. Len(old.queue) : past[Main].queue[i] = old.queue[i]
  BY <1>1, <1>3, <1>4, <1>5, <1>6
<1>10. Len(past[Main].queue) = IF draining THEN Len(old.queue) ELSE Len(old.queue) + Len(arrivals)
  BY <1>5, <1>6
<1>11. ASSUME ~draining
       PROVE  /\ \A i \in 1 .. Len(past[Main].queue) :
                   i > Len(old.queue) =>
                     /\ i - Len(old.queue) \in 1 .. Len(arrivals)
                     /\ past[Main].queue[i] = arrivals[i - Len(old.queue)]
              /\ \A i \in 1 .. Len(arrivals) :
                     /\ Len(old.queue) + i \in 1 .. Len(past[Main].queue)
                     /\ past[Main].queue[Len(old.queue) + i] = arrivals[i]
  <2>1. past[Main].queue = joined
    BY <1>6, <1>11
  <2>2. ASSUME NEW i \in 1 .. Len(joined), i > Len(old.queue)
        PROVE  i - Len(old.queue) \in 1 .. Len(arrivals) /\ joined[i] = arrivals[i - Len(old.queue)]
    BY <1>3, <1>4, <1>5, <2>2
  <2>3. ASSUME NEW i \in 1 .. Len(arrivals)
        PROVE  /\ Len(old.queue) + i \in 1 .. Len(joined)
               /\ joined[Len(old.queue) + i] = arrivals[i]
    <3> DEFINE k == Len(old.queue) + i
    <3>1. k \in 1 .. Len(joined) /\ ~(k <= Len(old.queue)) /\ k - Len(old.queue) = i
      BY <1>3, <1>4, <1>5
    <3> HIDE DEF k
    <3>2. joined[k] = arrivals[k - Len(old.queue)]
      BY <1>5, <3>1
    <3> QED
      BY <3>1, <3>2 DEF k
  <2> QED
    BY <2>1, <2>2, <2>3
<1> QED
  BY <1>2, <1>3, <1>6, <1>8, <1>9, <1>10, <1>11 DEF past, old

\* The heads of the session lanes that are pumped, and the phase they enter.
LEMMA HeadsOfSessions ==
  ASSUME NEW S, NEW ls, NEW ph, NEW se, NEW draining, NEW arrivals,
         Ready(S, ls, ph, se, draining, arrivals)
  PROVE  /\ \A r \in Heads(S, ls) :
              /\ r \in Runs /\ ph[r] = "queued" /\ se[r] \in S /\ r \in Pumped(ls[se[r]])
         /\ \A s \in S : Pumped(ls[s]) \subseteq Heads(S, ls)
         /\ \A r \in Heads(S, ls), q \in Heads(S, ls) : se[r] = se[q] => r = q
         /\ PhasesPastSessions(S, ls, ph, draining) \in [Runs -> Phases]
         /\ \A r \in Runs : PhasesPastSessions(S, ls, ph, draining)[r] =
              IF r \in Heads(S, ls) THEN IF draining THEN "rejecting" ELSE "pending" ELSE ph[r]
<1>1. Sound(ls, ph, se) /\ S \subseteq Sessions
  BY DEF Ready
<1>2. ASSUME NEW r \in Heads(S, ls)
      PROVE  r \in Runs /\ ph[r] = "queued" /\ se[r] \in S /\ r \in Pumped(ls[se[r]])
  <2>1. PICK s \in S : r \in Pumped(ls[s])
    BY <1>2 DEF Heads
  <2>2. s \in Sessions
    BY <1>1
  <2>3. r \in Runs /\ ph[r] = "queued" /\ se[r] = s
    BY <1>1, <2>1, <2>2, HeadIsFirst
  <2> QED
    BY <2>1, <2>3
<1>3. \A s \in S : Pumped(ls[s]) \subseteq Heads(S, ls)
  BY DEF Heads
<1>4. \A r \in Heads(S, ls), q \in Heads(S, ls) : se[r] = se[q] => r = q
  <2> SUFFICES ASSUME NEW r \in Heads(S, ls), NEW q \in Heads(S, ls), se[r] = se[q]
               PROVE  r = q
    OBVIOUS
  <2> DEFINE s == se[r]
  <2>1. s \in Sessions /\ r \in Pumped(ls[s]) /\ q \in Pumped(ls[s])
    BY <1>1, <1>2
  <2> HIDE DEF s
  <2>2. \A t \in Pumped(ls[s]) : t = r
    BY <1>1, <2>1, HeadIsFirst
  <2> QED
    BY <2>1, <2>2
<1>5. PhasesPastSessions(S, ls, ph, draining) \in [Runs -> Phases]
  BY <1>1 DEF PhasesPastSessions, Sound, Typed, Phases
<1> QED
  BY <1>2, <1>3, <1>4, <1>5 DEF PhasesPastSessions

LEMMA SessionLanesKeep ==
  ASSUME NEW S, NEW ls, NEW ph, NEW se, NEW draining, NEW arrivals,
         Ready(S, ls, ph, se, draining, arrivals), NEW s \in Sessions
  PROVE  SessionLane(s, LanesPastSessions(S, ls, draining, arrivals),
                     PhasesPastSessions(S, ls, ph, draining), se)
<1> DEFINE past == LanesPastSessions(S, ls, draining, arrivals)
           after == PhasesPastSessions(S, ls, ph, draining)
<1>1. Sound(ls, ph, se) /\ Typed(ls, ph, se) /\ S \subseteq Sessions /\ SessionLane(s, ls, ph, se)
  BY DEF Ready, Sound
<1>2. past[s] = IF s \in S THEN Pump(ls[s]) ELSE ls[s]
  BY PastSessions
<1>3. /\ \A r \in Runs : r \notin Heads(S, ls) => after[r] = ph[r]
      /\ \A r \in Heads(S, ls) : se[r] \in S /\ r \in Pumped(ls[se[r]])
  BY HeadsOfSessions
<1>4. ProperLane(ls[s], Runs)
  BY <1>1, LanesAreProper, Constants
<1>5. Len(ls[s].queue) \in Nat /\ \A i \in 1 .. Len(ls[s].queue) : ls[s].queue[i] \in Runs
  BY <1>4, LenProperties, ElementOfSeq DEF ProperLane, LaneState
<1> SUFFICES SessionLane(s, past, after, se)
  OBVIOUS
<1> HIDE DEF past, after
<1>6. CASE s \notin S
  <2>1. \A i \in 1 .. Len(ls[s].queue) : after[ls[s].queue[i]] = "queued"
    <3> TAKE i \in 1 .. Len(ls[s].queue)
    <3>1. se[ls[s].queue[i]] = s /\ ph[ls[s].queue[i]] = "queued"
      BY <1>1 DEF SessionLane
    <3> QED
      BY <1>3, <1>5, <1>6, <3>1
  <2> QED
    BY <1>1, <1>2, <1>6, <2>1 DEF SessionLane
<1>7. CASE s \in S
  <2> DEFINE left == Pump(ls[s]).queue
             n == PumpCount(ls[s])
  <2>1. /\ Pump(ls[s]).maxConcurrent = 1
        /\ Pump(ls[s]).active = ls[s].active \cup Pumped(ls[s])
    BY <1>1, <1>4, PumpFields DEF SessionLane
  <2>2. \A r, q \in Pump(ls[s]).active : r = q
    <3>1. CASE Pumped(ls[s]) = {}
      BY <1>1, <2>1, <3>1 DEF SessionLane
    <3>2. CASE Pumped(ls[s]) # {}
      <4>1. PICK h \in Pumped(ls[s]) : TRUE
        BY <3>2
      <4>2. (\A q \in Pumped(ls[s]) : q = h) /\ ls[s].active = {}
        BY <1>1, HeadIsFirst
      <4> QED
        BY <2>1, <4>2
    <3> QED
      BY <3>1, <3>2
  <2>3. /\ Len(left) \in Nat /\ n \in Nat
        /\ \A i \in 1 .. Len(left) : n + i \in 1 .. Len(ls[s].queue) /\ left[i] = ls[s].queue[n + i]
    <3> DEFINE lane == ls[s]
    <3>1. ProperLane(lane, Runs)
      BY <1>4
    <3> HIDE DEF lane
    <3>2. /\ Len(Pump(lane).queue) \in Nat /\ PumpCount(lane) \in Nat
          /\ \A i \in 1 .. Len(Pump(lane).queue) :
               /\ PumpCount(lane) + i \in 1 .. Len(lane.queue)
               /\ Pump(lane).queue[i] = lane.queue[PumpCount(lane) + i]
      BY <3>1, PumpSplits
    <3> QED
      BY <3>2 DEF lane
  <2>4. ASSUME NEW i \in 1 .. Len(left)
        PROVE  se[left[i]] = s /\ after[left[i]] = "queued"
    <3>1. left[i] \in Runs /\ se[left[i]] = s /\ ph[left[i]] = "queued"
      BY <1>1, <1>5, <2>3 DEF SessionLane
    <3>2. left[i] \notin Pumped(ls[s])
      <4>1. SUFFICES ASSUME left[i] \in Pumped(ls[s]) PROVE FALSE
        OBVIOUS
      <4>2. left[i] < left[i]
        BY <1>1, <4>1, HeadIsFirst
      <4>3. left[i] \in Nat
        BY <3>1, Constants
      <4> QED
        BY <4>2, <4>3
    <3> QED
      BY <1>3, <3>1, <3>2
  <2>5. ASSUME NEW i \in 1 .. Len(left), NEW j \in 1 .. Len(left), i < j
        PROVE  left[i] < left[j]
    <3>1. n + i < n + j
      BY <2>3, <2>5
    <3> QED
      BY <1>1, <2>3, <3>1 DEF SessionLane
  <2> HIDE DEF left
  <2> QED
    BY <1>2, <1>7, <2>1, <2>2, <2>4, <2>5 DEF SessionLane, left
<1> QED
  BY <1>6, <1>7

LEMMA ArrivalsKeepGlobalLane ==
  ASSUME NEW S, NEW ls, NEW ph, NEW se, NEW draining, NEW arrivals,
         Ready(S, ls, ph, se, draining, arrivals)
  PROVE  GlobalLane(LanesPastSessions(S, ls, draining, arrivals),
                    PhasesPastSessions(S, ls, ph, draining), se)
<1> DEFINE past == LanesPastSessions(S, ls, draining, arrivals)
           after == PhasesPastSessions(S, ls, ph, draining)
           old == ls[Main].queue
           new == past[Main].queue
<1>1. /\ Sound(ls, ph, se) /\ Typed(ls, ph, se) /\ S \subseteq Sessions /\ draining \in BOOLEAN
      /\ arrivals \in HeadOrders(S, ls)
  BY DEF Ready, Sound
<1>2. /\ Len(old) \in Nat
      /\ Len(new) = IF draining THEN Len(old) ELSE Len(old) + Len(arrivals)
      /\ \A i \in 1 .. Len(old) : new[i] = old[i]
      /\ ~draining => \A i \in 1 .. Len(new) : i > Len(old) =>
                        i - Len(old) \in 1 .. Len(arrivals) /\ new[i] = arrivals[i - Len(old)]
  BY PastSessions
<1>3. /\ \A r \in Runs : after[r] =
           IF r \in Heads(S, ls) THEN IF draining THEN "rejecting" ELSE "pending" ELSE ph[r]
      /\ \A r \in Heads(S, ls) : r \in Runs /\ ph[r] = "queued" /\ se[r] \in S
      /\ \A r \in Heads(S, ls), q \in Heads(S, ls) : se[r] = se[q] => r = q
  BY HeadsOfSessions
<1>4. /\ Len(arrivals) \in Nat
      /\ \A i \in 1 .. Len(arrivals) : arrivals[i] \in Heads(S, ls)
      /\ \A i, j \in 1 .. Len(arrivals) : i # j => arrivals[i] # arrivals[j]
  BY <1>1, Arrivals
<1>5. \A i \in 1 .. Len(old) : old[i] \in Runs /\ ph[old[i]] = "pending"
  <2>1. \A i \in 1 .. Len(old) : old[i] \in Runs
    BY <1>1, LanesAreProper, Constants, LenProperties, ElementOfSeq DEF ProperLane, LaneState
  <2> QED
    BY <1>1, <2>1 DEF Sound, GlobalLane
<1>6. /\ \A i, j \in 1 .. Len(old) : i < j => se[old[i]] # se[old[j]] \/ old[i] < old[j]
      /\ InOrder(ph, se)
  BY <1>1 DEF Sound, GlobalLane
<1> HIDE DEF past, after, old, new
<1>7. ASSUME NEW i \in 1 .. Len(new)
      PROVE  \/ i \in 1 .. Len(old) /\ new[i] = old[i]
             \/ /\ ~draining /\ i > Len(old) /\ i - Len(old) \in 1 .. Len(arrivals)
                /\ new[i] = arrivals[i - Len(old)] /\ new[i] \in Heads(S, ls)
  <2>1. CASE i <= Len(old)
    BY <1>2, <2>1
  <2>2. CASE ~(i <= Len(old))
    <3>1. i > Len(old) /\ ~draining
      BY <1>1, <1>2, <1>4, <2>2
    <3> QED
      BY <1>2, <1>4, <3>1
  <2> QED
    BY <2>1, <2>2
<1>8. ASSUME NEW i \in 1 .. Len(new) PROVE after[new[i]] = "pending"
  BY <1>1, <1>3, <1>5, <1>7
<1>9. ASSUME NEW i \in 1 .. Len(new), NEW j \in 1 .. Len(new), i < j, se[new[i]] = se[new[j]]
      PROVE  new[i] < new[j]
  <2>1. CASE j \in 1 .. Len(old) /\ new[j] = old[j]
    <3>1. i \in 1 .. Len(old) /\ new[i] = old[i]
      BY <1>2, <1>9, <2>1
    <3> QED
      BY <1>6, <1>9, <2>1, <3>1
  <2>2. CASE /\ ~draining /\ j > Len(old) /\ j - Len(old) \in 1 .. Len(arrivals)
             /\ new[j] = arrivals[j - Len(old)] /\ new[j] \in Heads(S, ls)
    <3>1. CASE i \in 1 .. Len(old) /\ new[i] = old[i]
      <4>1. ph[new[i]] = "pending" /\ ph[new[j]] = "queued" /\ new[i] \in Runs /\ new[j] \in Runs
        BY <1>3, <1>5, <2>2, <3>1
      <4>2. ~(new[j] < new[i])
        BY <1>6, <1>9, <4>1 DEF InOrder, Started
      <4>3. new[j] # new[i] /\ new[i] \in Nat /\ new[j] \in Nat
        BY <4>1, Constants
      <4> QED
        BY <4>2, <4>3
    <3>2. CASE /\ ~draining /\ i > Len(old) /\ i - Len(old) \in 1 .. Len(arrivals)
               /\ new[i] = arrivals[i - Len(old)] /\ new[i] \in Heads(S, ls)
      <4>1. new[i] = new[j]
        BY <1>3, <1>9, <2>2, <3>2
      <4>2. i - Len(old) # j - Len(old)
        BY <1>2, <1>9
      <4> QED
        BY <1>4, <2>2, <3>2, <4>1, <4>2
    <3> QED
      BY <1>7, <3>1, <3>2
  <2> QED
    BY <1>7, <2>1, <2>2
<1> QED
  BY <1>8, <1>9 DEF GlobalLane, past, after, new

LEMMA SessionsKeep ==
  ASSUME NEW S, NEW ls, NEW ph, NEW se, NEW draining, NEW arrivals,
         Ready(S, ls, ph, se, draining, arrivals)
  PROVE  Sound(LanesPastSessions(S, ls, draining, arrivals),
               PhasesPastSessions(S, ls, ph, draining), se)
<1> DEFINE past == LanesPastSessions(S, ls, draining, arrivals)
           after == PhasesPastSessions(S, ls, ph, draining)
           old == ls[Main].queue
<1>1. /\ Sound(ls, ph, se) /\ Typed(ls, ph, se) /\ S \subseteq Sessions /\ draining \in BOOLEAN
      /\ arrivals \in HeadOrders(S, ls) /\ EachIsInItsQueue(ls, ph, se) /\ InOrder(ph, se)
  BY DEF Ready, Sound
<1>2. /\ past \in [Lanes -> LaneState(Runs)]
      /\ \A s \in Sessions : past[s] = IF s \in S THEN Pump(ls[s]) ELSE ls[s]
      /\ Len(old) \in Nat
      /\ Len(past[Main].queue) = IF draining THEN Len(old) ELSE Len(old) + Len(arrivals)
      /\ \A i \in 1 .. Len(old) : past[Main].queue[i] = old[i]
      /\ ~draining => \A i \in 1 .. Len(arrivals) :
           /\ Len(old) + i \in 1 .. Len(past[Main].queue)
           /\ past[Main].queue[Len(old) + i] = arrivals[i]
  BY PastSessions
<1>3. /\ after \in [Runs -> Phases]
      /\ \A r \in Runs : after[r] =
           IF r \in Heads(S, ls) THEN IF draining THEN "rejecting" ELSE "pending" ELSE ph[r]
      /\ \A r \in Heads(S, ls) :
           r \in Runs /\ ph[r] = "queued" /\ se[r] \in S /\ r \in Pumped(ls[se[r]])
      /\ \A s \in S : Pumped(ls[s]) \subseteq Heads(S, ls)
  BY HeadsOfSessions
<1>4. /\ Len(arrivals) \in Nat
      /\ \A r \in Heads(S, ls) : \E i \in 1 .. Len(arrivals) : arrivals[i] = r
  BY <1>1, Arrivals
<1>5. GlobalLane(past, after, se) /\ \A s \in Sessions : SessionLane(s, past, after, se)
  BY ArrivalsKeepGlobalLane, SessionLanesKeep
<1> SUFFICES Sound(past, after, se)
  OBVIOUS
<1> HIDE DEF past, after, old
<1>6. Typed(past, after, se)
  BY <1>1, <1>2, <1>3 DEF Typed
<1>7. ASSUME NEW r \in Runs, after[r] = "queued"
      PROVE  se[r] \in Sessions /\ r \in Queued(past[se[r]])
  <2>1. r \notin Heads(S, ls) /\ ph[r] = "queued"
    BY <1>1, <1>3, <1>7
  <2>2. se[r] \in Sessions /\ r \in Queued(ls[se[r]])
    BY <1>1, <2>1 DEF EachIsInItsQueue
  <2>3. CASE se[r] \notin S
    BY <1>2, <2>2, <2>3
  <2>4. CASE se[r] \in S
    <3> DEFINE lane == ls[se[r]]
    <3>1. ProperLane(lane, Runs) /\ r \notin Pumped(lane)
      BY <1>1, <1>3, <2>1, <2>2, <2>4, LanesAreProper, Constants
    <3>2. PICK i \in 1 .. Len(lane.queue) : r = lane.queue[i]
      BY <2>2 DEF Queued
    <3> HIDE DEF lane
    <3>3. /\ i - PumpCount(lane) \in 1 .. Len(Pump(lane).queue)
          /\ Pump(lane).queue[i - PumpCount(lane)] = r
      BY <3>1, <3>2, PumpSplits
    <3>4. r \in Queued(Pump(lane))
      BY <3>3 DEF Queued
    <3> QED
      BY <1>2, <2>2, <2>4, <3>4 DEF lane
  <2> QED
    BY <2>3, <2>4
<1>8. ASSUME NEW r \in Runs, after[r] = "pending"
      PROVE  se[r] \in Sessions /\ r \in Queued(past[Main])
  <2>1. CASE r \in Heads(S, ls)
    <3>1. ~draining /\ se[r] \in Sessions
      BY <1>1, <1>3, <1>8, <2>1
    <3>2. PICK i \in 1 .. Len(arrivals) : arrivals[i] = r
      BY <1>4, <2>1
    <3>3. Len(old) + i \in 1 .. Len(past[Main].queue) /\ past[Main].queue[Len(old) + i] = r
      BY <1>2, <3>1, <3>2
    <3> QED
      BY <3>1, <3>3 DEF Queued
  <2>2. CASE r \notin Heads(S, ls)
    <3>1. ph[r] = "pending"
      BY <1>3, <1>8, <2>2
    <3>2. se[r] \in Sessions /\ \E i \in 1 .. Len(old) : r = old[i]
      BY <1>1, <3>1 DEF EachIsInItsQueue, Queued, old
    <3>3. PICK i \in 1 .. Len(old) : r = old[i]
      BY <3>2
    <3>4. i \in 1 .. Len(past[Main].queue) /\ past[Main].queue[i] = r
      BY <1>1, <1>2, <1>4, <3>3
    <3> QED
      BY <3>2, <3>4 DEF Queued
  <2> QED
    BY <2>1, <2>2
<1>9. ASSUME NEW r \in Runs, after[r] # "idle" PROVE se[r] \in Sessions
  BY <1>1, <1>3, <1>9 DEF EachIsInItsQueue
<1>10. ASSUME NEW r \in Runs, NEW q \in Runs, r < q, se[r] = se[q]
       PROVE  /\ after[q] \in Started => after[r] # "queued"
              /\ after[q] \in Begun => after[r] # "pending"
  <2>1. ASSUME after[q] \in Started, after[r] = "queued" PROVE FALSE
    <3>1. r \notin Heads(S, ls) /\ ph[r] = "queued"
      BY <1>1, <1>3, <2>1
    <3>2. CASE q \notin Heads(S, ls)
      BY <1>1, <1>3, <1>10, <2>1, <3>1, <3>2 DEF InOrder
    <3>3. CASE q \in Heads(S, ls)
      <4>1. se[q] \in S /\ se[q] \in Sessions /\ q \in Pumped(ls[se[q]])
        BY <1>1, <1>3, <3>3
      <4>2. PICK i \in 1 .. Len(ls[se[q]].queue) : ls[se[q]].queue[i] = r
        BY <1>1, <1>10, <3>1 DEF EachIsInItsQueue, Queued
      <4>3. r = q \/ q < r
        BY <1>1, <4>1, <4>2, HeadIsFirst
      <4> QED
        BY <1>10, <4>3, Constants
    <3> QED
      BY <3>2, <3>3
  <2>2. ASSUME after[q] \in Begun, after[r] = "pending" PROVE FALSE
    <3>1. q \notin Heads(S, ls) /\ ph[q] \in Begun
      BY <1>1, <1>3, <2>2 DEF Begun
    <3>2. ph[r] # "pending" /\ ph[r] # "queued"
      BY <1>1, <1>10, <3>1 DEF InOrder, Begun, Started
    <3> QED
      BY <1>3, <2>2, <3>2
  <2> QED
    BY <2>1, <2>2
<1> QED
  BY <1>5, <1>6, <1>7, <1>8, <1>9, <1>10 DEF Sound, EachIsInItsQueue, InOrder

\* While the gateway drains, no run comes to work; otherwise only heads do.
LEMMA SessionsWork ==
  ASSUME NEW S, NEW ls, NEW ph, NEW se, NEW draining, NEW arrivals,
         Ready(S, ls, ph, se, draining, arrivals)
  PROVE  LET past == LanesPastSessions(S, ls, draining, arrivals)
             after == PhasesPastSessions(S, ls, ph, draining)
         IN  /\ draining => Working(after) \subseteq Working(ph)
             /\ HoldsSlot(ls, ph, se) => HoldsSlot(past, after, se)
             /\ Unseen(after) = Unseen(ph)
<1> DEFINE past == LanesPastSessions(S, ls, draining, arrivals)
           after == PhasesPastSessions(S, ls, ph, draining)
<1>1. Sound(ls, ph, se) /\ Typed(ls, ph, se) /\ S \subseteq Sessions /\ EachIsInItsQueue(ls, ph, se)
  BY DEF Ready, Sound
<1>2. \A s \in Sessions : past[s] = IF s \in S THEN Pump(ls[s]) ELSE ls[s]
  BY PastSessions
<1>3. /\ \A r \in Runs : after[r] =
           IF r \in Heads(S, ls) THEN IF draining THEN "rejecting" ELSE "pending" ELSE ph[r]
      /\ \A r \in Heads(S, ls) :
           r \in Runs /\ ph[r] = "queued" /\ se[r] \in S /\ r \in Pumped(ls[se[r]])
  BY HeadsOfSessions
<1> SUFFICES /\ draining => Working(after) \subseteq Working(ph)
             /\ HoldsSlot(ls, ph, se) => HoldsSlot(past, after, se)
             /\ Unseen(after) = Unseen(ph)
  OBVIOUS
<1> HIDE DEF past, after
<1>4. draining => Working(after) \subseteq Working(ph)
  BY <1>3 DEF Working
<1>5. \A s \in S : Pump(ls[s]).active = ls[s].active \cup Pumped(ls[s])
  BY <1>1, LanesAreProper, PumpFields, Constants
<1>6. ASSUME HoldsSlot(ls, ph, se), NEW r \in Working(after)
      PROVE  r \in past[se[r]].active
  <2>1. r \in Runs /\ after[r] \in {"pending", "executing"}
    BY DEF Working
  <2>2. CASE r \in Heads(S, ls)
    BY <1>1, <1>2, <1>3, <1>5, <2>2
  <2>3. CASE r \notin Heads(S, ls)
    <3>1. ph[r] \in {"pending", "executing"} /\ r \in Working(ph)
      BY <1>3, <2>1, <2>3 DEF Working
    <3>2. se[r] \in Sessions /\ r \in ls[se[r]].active
      BY <1>1, <1>6, <2>1, <3>1 DEF EachIsInItsQueue, HoldsSlot
    <3> QED
      BY <1>2, <1>5, <3>2
  <2> QED
    BY <2>2, <2>3
<1>7. Unseen(after) = Unseen(ph)
  BY <1>3 DEF Unseen
<1> QED
  BY <1>4, <1>6, <1>7 DEF HoldsSlot

-----------------------------------------------------------------------------
(* Past the global lane.                                                   *)

LEMMA GlobalKeeps ==
  ASSUME NEW ls, NEW ph, NEW se, Sound(ls, ph, se)
  PROVE  LET past == LanesPastGlobal(ls)
             after == PhasesPastGlobal(ls, ph)
         IN  /\ Sound(past, after, se)
             /\ Working(after) = Working(ph) /\ Unseen(after) = Unseen(ph)
             /\ HoldsSlot(ls, ph, se) => HoldsSlot(past, after, se)
<1> DEFINE past == LanesPastGlobal(ls)
           after == PhasesPastGlobal(ls, ph)
           old == ls[Main].queue
           new == Pump(ls[Main]).queue
           n == PumpCount(ls[Main])
<1>1. /\ Typed(ls, ph, se) /\ GlobalLane(ls, ph, se) /\ EachIsInItsQueue(ls, ph, se)
      /\ InOrder(ph, se) /\ \A s \in Sessions : SessionLane(s, ls, ph, se)
  BY DEF Sound
<1>2. ProperLane(ls[Main], Runs)
  BY <1>1, LanesAreProper, Constants
<1>3. /\ past[Main] = Pump(ls[Main]) /\ \A s \in Sessions : past[s] = ls[s]
      /\ past = [l \in Lanes |-> past[l]]
  <2>1. Main \in Lanes /\ Main \notin Sessions /\ Sessions \subseteq Lanes
    BY Constants
  <2> QED
    BY <2>1 DEF LanesPastGlobal
<1>4. /\ after = [r \in Runs |-> after[r]]
      /\ \A r \in Runs : after[r] = IF r \in Pumped(ls[Main]) THEN "executing" ELSE ph[r]
  BY DEF PhasesPastGlobal
<1>5. /\ \A i \in 1 .. Len(old) :
           \/ i <= n /\ old[i] \in Pumped(ls[Main])
           \/ i > n /\ i - n \in 1 .. Len(new) /\ new[i - n] = old[i]
      /\ \A i \in 1 .. Len(new) : n + i \in 1 .. Len(old) /\ new[i] = old[n + i]
      /\ \A r \in Pumped(ls[Main]) : \E i \in 1 .. Len(old) : i <= n /\ r = old[i]
      /\ Len(old) \in Nat /\ Len(new) \in Nat /\ n \in Nat
  BY <1>2, PumpSplits
<1>6. Pumped(ls[Main]) \subseteq Runs /\ \A r \in Pumped(ls[Main]) : ph[r] = "pending"
  <2>1. \A r \in Pumped(ls[Main]) : ph[r] = "pending"
    BY <1>1, <1>5 DEF GlobalLane
  <2> QED
    BY <1>2, <2>1, PumpedIsFinite
<1>7. /\ \A i \in 1 .. Len(old) : old[i] \in Runs /\ ph[old[i]] = "pending"
      /\ \A i, j \in 1 .. Len(old) : i < j => se[old[i]] # se[old[j]] \/ old[i] < old[j]
  <2>1. \A i \in 1 .. Len(old) : old[i] \in Runs
    BY <1>2, LenProperties, ElementOfSeq DEF ProperLane, LaneState
  <2> QED
    BY <1>1, <2>1 DEF GlobalLane
<1>8. Pump(ls[Main]) \in LaneState(Runs)
  BY <1>2, PumpKeepsProper DEF ProperLane
<1> SUFFICES /\ Sound(past, after, se)
             /\ Working(after) = Working(ph) /\ Unseen(after) = Unseen(ph)
             /\ HoldsSlot(ls, ph, se) => HoldsSlot(past, after, se)
  OBVIOUS
<1> HIDE DEF past, after, n
<1>9. Typed(past, after, se)
  <2>1. past \in [Lanes -> LaneState(Runs)]
    BY <1>1, <1>3, <1>8, Constants DEF Typed
  <2>2. after \in [Runs -> Phases]
    BY <1>1, <1>4 DEF Typed, Phases
  <2> QED
    BY <1>1, <2>1, <2>2 DEF Typed
<1>10. ASSUME NEW s \in Sessions PROVE SessionLane(s, past, after, se)
  <2>1. SessionLane(s, ls, ph, se) /\ past[s] = ls[s]
    BY <1>1, <1>3
  <2>2. ASSUME NEW i \in 1 .. Len(ls[s].queue) PROVE after[ls[s].queue[i]] = "queued"
    <3>1. ls[s].queue[i] \in Runs /\ ph[ls[s].queue[i]] = "queued"
      BY <1>1, <2>1, LanesAreProper, Constants, LenProperties, ElementOfSeq
         DEF ProperLane, LaneState, SessionLane
    <3> QED
      BY <1>4, <1>6, <3>1
  <2> QED
    BY <2>1, <2>2 DEF SessionLane
<1>11. GlobalLane(past, after, se)
  <2> DEFINE left == past[Main].queue
  <2>1. left = new
    BY <1>3
  <2> HIDE DEF new, old, left
  <2>2. ASSUME NEW i \in 1 .. Len(left) PROVE after[left[i]] = "pending"
    <3>1. n + i \in 1 .. Len(old) /\ left[i] = old[n + i]
      BY <1>5, <2>1
    <3>2. left[i] \in Runs /\ ph[left[i]] = "pending"
      BY <1>7, <3>1
    <3>3. left[i] \notin Pumped(ls[Main])
      <4>1. SUFFICES ASSUME left[i] \in Pumped(ls[Main]) PROVE FALSE
        OBVIOUS
      <4>2. PICK k \in 1 .. Len(old) : k <= n /\ left[i] = old[k]
        BY <1>5, <4>1
      <4>3. k < n + i
        BY <1>5, <2>1, <4>2
      <4>4. left[i] < left[i]
        BY <1>7, <3>1, <4>2, <4>3
      <4>5. left[i] \in Nat
        BY <3>2, Constants
      <4> QED
        BY <4>4, <4>5
    <3> QED
      BY <1>4, <3>2, <3>3
  <2>3. ASSUME NEW i \in 1 .. Len(left), NEW j \in 1 .. Len(left), i < j
        PROVE  se[left[i]] # se[left[j]] \/ left[i] < left[j]
    <3>1. /\ n + i \in 1 .. Len(old) /\ left[i] = old[n + i]
          /\ n + j \in 1 .. Len(old) /\ left[j] = old[n + j] /\ n + i < n + j
      BY <1>5, <2>1, <2>3
    <3> QED
      BY <1>7, <3>1
  <2> QED
    BY <2>2, <2>3 DEF GlobalLane, left
<1>12. EachIsInItsQueue(past, after, se)
  <2>1. ASSUME NEW r \in Runs, after[r] = "queued"
        PROVE  se[r] \in Sessions /\ r \in Queued(past[se[r]])
    <3>1. ph[r] = "queued"
      BY <1>4, <2>1
    <3> QED
      BY <1>1, <1>3, <3>1 DEF EachIsInItsQueue
  <2>2. ASSUME NEW r \in Runs, after[r] = "pending"
        PROVE  se[r] \in Sessions /\ r \in Queued(past[Main])
    <3>1. ph[r] = "pending" /\ r \notin Pumped(ls[Main])
      BY <1>4, <2>2
    <3>2. se[r] \in Sessions /\ \E i \in 1 .. Len(old) : r = old[i]
      BY <1>1, <3>1 DEF EachIsInItsQueue, Queued
    <3>3. \E i \in 1 .. Len(new) : r = new[i]
      BY <1>5, <3>1, <3>2
    <3> QED
      BY <1>3, <3>2, <3>3 DEF Queued
  <2>3. ASSUME NEW r \in Runs, after[r] # "idle" PROVE se[r] \in Sessions
    BY <1>1, <1>4, <1>6, <2>3 DEF EachIsInItsQueue
  <2> QED
    BY <2>1, <2>2, <2>3 DEF EachIsInItsQueue
<1>13. ASSUME NEW r \in Runs, NEW q \in Runs, r < q, se[r] = se[q]
       PROVE  /\ after[q] \in Started => after[r] # "queued"
              /\ after[q] \in Begun => after[r] # "pending"
  <2>1. ASSUME after[q] \in Started, after[r] = "queued" PROVE FALSE
    <3>1. ph[r] = "queued" /\ ph[q] \in Started
      BY <1>4, <1>6, <2>1 DEF Started
    <3> QED
      BY <1>1, <1>13, <3>1 DEF InOrder
  <2>2. ASSUME after[q] \in Begun, after[r] = "pending" PROVE FALSE
    <3>1. ph[r] = "pending" /\ r \notin Pumped(ls[Main])
      BY <1>4, <2>2
    <3>2. CASE q \notin Pumped(ls[Main])
      BY <1>1, <1>4, <1>13, <2>2, <3>1, <3>2 DEF InOrder
    <3>3. CASE q \in Pumped(ls[Main])
      <4>1. PICK i \in 1 .. Len(old) : r = old[i]
        BY <1>1, <3>1 DEF EachIsInItsQueue, Queued
      <4>2. PICK j \in 1 .. Len(old) : j <= n /\ q = old[j]
        BY <1>5, <3>3
      <4>3. i > n
        BY <1>5, <3>1, <4>1
      <4>4. q < r
        BY <1>5, <1>7, <1>13, <4>1, <4>2, <4>3
      <4> QED
        BY <1>13, <4>4, Constants
    <3> QED
      BY <3>2, <3>3
  <2> QED
    BY <2>1, <2>2
<1>14. Sound(past, after, se)
  BY <1>9, <1>10, <1>11, <1>12, <1>13 DEF Sound, InOrder
<1>15. Working(after) = Working(ph) /\ Unseen(after) = Unseen(ph)
  BY <1>4, <1>6 DEF Working, Unseen
<1>16. ASSUME HoldsSlot(ls, ph, se), NEW r \in Working(after) PROVE r \in past[se[r]].active
  <2>1. r \in Working(ph) /\ r \in ls[se[r]].active /\ se[r] \in Sessions
    BY <1>1, <1>15, <1>16 DEF HoldsSlot, Working, EachIsInItsQueue
  <2> QED
    BY <1>3, <2>1
<1> QED
  BY <1>14, <1>15, <1>16 DEF HoldsSlot

-----------------------------------------------------------------------------
(* Drain.                                                                  *)

GenerationsTyped == generation \in [Runs -> [session : Nat, main : Nat]]

LEMMA DrainKeeps ==
  ASSUME NEW S, NEW ls, NEW ph, NEW draining, NEW arrivals,
         Ready(S, ls, ph, session', draining, arrivals), GenerationsTyped,
         Drain(S, ls, ph, draining, arrivals)
  PROVE  /\ Sound(lanes', phase', session') /\ GenerationsTyped'
         /\ draining => Working(phase') \subseteq Working(ph)
         /\ HoldsSlot(ls, ph, session') => HoldsSlot(lanes', phase', session')
         /\ Unseen(phase') = Unseen(ph)
<1> DEFINE past == LanesPastSessions(S, ls, draining, arrivals)
           after == PhasesPastSessions(S, ls, ph, draining)
<1>1. S \in SUBSET Sessions /\ draining \in BOOLEAN /\ Typed(ls, ph, session')
  BY DEF Ready, Sound
<1>2. lanes' = LanesPastGlobal(past) /\ phase' = PhasesPastGlobal(past, after)
  BY <1>1, DrainInTwoSteps
<1>3. Sound(past, after, session')
  BY SessionsKeep
<1>4. /\ draining => Working(after) \subseteq Working(ph)
      /\ HoldsSlot(ls, ph, session') => HoldsSlot(past, after, session')
      /\ Unseen(after) = Unseen(ph)
  BY SessionsWork
<1> HIDE DEF past, after
<1>5. /\ Sound(lanes', phase', session')
      /\ Working(phase') = Working(after) /\ Unseen(phase') = Unseen(after)
      /\ HoldsSlot(past, after, session') => HoldsSlot(lanes', phase', session')
  BY <1>2, <1>3, GlobalKeeps
<1>6. GenerationsTyped'
  <2>1. \A l \in Lanes : ls[l].generation \in Nat
    BY <1>1 DEF Typed, LaneState
  <2>2. \A r \in Runs : session'[r] \in Lanes
    BY <1>1 DEF Typed
  <2>3. \A r \in Runs : generation[r].session \in Nat /\ generation[r].main \in Nat
    BY DEF GenerationsTyped
  <2> DEFINE heads == Heads(S, ls)
             executing == Pumped(IF draining THEN ls[Main]
                                 ELSE [ls[Main] EXCEPT !.queue = @ \o arrivals])
  <2>4. generation' = [r \in Runs |->
            [ session |-> IF r \in heads THEN ls[session'[r]].generation ELSE generation[r].session,
              main |-> IF r \in executing THEN ls[Main].generation ELSE generation[r].main ]]
    BY DEF Drain, Heads
  <2> HIDE DEF heads, executing
  <2>5. \A r \in Runs :
          /\ (IF r \in heads THEN ls[session'[r]].generation ELSE generation[r].session) \in Nat
          /\ (IF r \in executing THEN ls[Main].generation ELSE generation[r].main) \in Nat
    BY <2>1, <2>2, <2>3, Constants
  <2> QED
    BY <2>4, <2>5 DEF GenerationsTyped
<1> QED
  BY <1>4, <1>5, <1>6

-----------------------------------------------------------------------------
(* What the actions hand to Drain.                                         *)

\* Lanes with the same entries, and with fewer tasks in their slots.
Lightened(ls, new) ==
  /\ new \in [Lanes -> LaneState(Runs)]
  /\ \A l \in Lanes : /\ new[l].queue = ls[l].queue
                      /\ new[l].maxConcurrent = ls[l].maxConcurrent
                      /\ new[l].active \subseteq ls[l].active

LEMMA LightenedKeeps ==
  ASSUME NEW ls, NEW ph, NEW se, Sound(ls, ph, se), NEW new, Lightened(ls, new)
  PROVE  Sound(new, ph, se)
<1>1. Typed(new, ph, se)
  BY DEF Sound, Typed, Lightened
<1>2. \A s \in Sessions : SessionLane(s, new, ph, se)
  BY Constants DEF Sound, SessionLane, Lightened
<1>3. GlobalLane(new, ph, se)
  BY Constants DEF Sound, GlobalLane, Lightened
<1>4. EachIsInItsQueue(new, ph, se)
  BY Constants DEF Sound, EachIsInItsQueue, Queued, Lightened
<1> QED
  BY <1>1, <1>2, <1>3, <1>4 DEF Sound

\* The three steps at the end of a run: its work ends, its session task ends after work
\* or after a rejection.
Ends(from, to) ==
  \/ from = "executing" /\ to = "unwinding"
  \/ from = "unwinding" /\ to = "settled"
  \/ from = "rejecting" /\ to = "dropped"
Ended(ph, r, end) == [ph EXCEPT ![r] = end]

LEMMA EndKeeps ==
  ASSUME NEW ls, NEW ph, NEW se, Sound(ls, ph, se), NEW r \in Runs, NEW end,
         Ends(ph[r], end)
  PROVE  /\ Sound(ls, Ended(ph, r, end), se)
         /\ Working(Ended(ph, r, end)) = Working(ph) \ {r}
         /\ Unseen(Ended(ph, r, end)) = Unseen(ph)
<1> DEFINE ended == Ended(ph, r, end)
<1>1. /\ Typed(ls, ph, se) /\ GlobalLane(ls, ph, se) /\ EachIsInItsQueue(ls, ph, se)
      /\ InOrder(ph, se) /\ \A s \in Sessions : SessionLane(s, ls, ph, se)
  BY DEF Sound
<1>2. /\ ended \in [Runs -> Phases] /\ ended[r] = end
      /\ \A q \in Runs : q # r => ended[q] = ph[q]
      /\ ph[r] \in {"executing", "unwinding", "rejecting"} /\ end \in {"unwinding", "settled", "dropped"}
      /\ end \in Begun => ph[r] \in Begun
  BY <1>1 DEF Typed, Ends, Ended, Phases, Begun
<1> SUFFICES /\ Sound(ls, ended, se)
             /\ Working(ended) = Working(ph) \ {r} /\ Unseen(ended) = Unseen(ph)
  OBVIOUS
<1> HIDE DEF ended
<1>3. \A l \in Lanes : \A i \in 1 .. Len(ls[l].queue) : ls[l].queue[i] \in Runs
  BY <1>1, LanesAreProper, LenProperties, ElementOfSeq DEF ProperLane, LaneState
<1>4. ASSUME NEW s \in Sessions PROVE SessionLane(s, ls, ended, se)
  <2>1. SessionLane(s, ls, ph, se)
    BY <1>1
  <2>2. ASSUME NEW i \in 1 .. Len(ls[s].queue) PROVE ended[ls[s].queue[i]] = "queued"
    <3>1. ls[s].queue[i] \in Runs /\ ph[ls[s].queue[i]] = "queued"
      BY <1>3, <2>1, Constants DEF SessionLane
    <3> QED
      BY <1>2, <3>1
  <2> QED
    BY <2>1, <2>2 DEF SessionLane
<1>5. GlobalLane(ls, ended, se)
  BY <1>1, <1>2, <1>3, Constants DEF GlobalLane
<1>6. EachIsInItsQueue(ls, ended, se)
  BY <1>1, <1>2 DEF EachIsInItsQueue
<1>7. InOrder(ended, se)
  BY <1>1, <1>2 DEF InOrder, Started, Begun
<1>8. Working(ended) = Working(ph) \ {r} /\ Unseen(ended) = Unseen(ph)
  BY <1>2 DEF Working, Unseen
<1> QED
  BY <1>1, <1>2, <1>4, <1>5, <1>6, <1>7, <1>8 DEF Sound, Typed

LEMMA NoArrivals ==
  ASSUME NEW ls
  PROVE  << >> \in HeadOrders({}, ls)
<1>1. UNION { Pumped(ls[s]) : s \in {} } = {} /\ Cardinality({}) = 0
  BY FS_EmptySet
<1>2. << >> \in [1 .. 0 -> {}]
  BY 1 .. 0 = {}
<1> QED
  BY <1>1, <1>2 DEF HeadOrders, SetToSeqs

LEMMA ReleaseLightens ==
  ASSUME NEW ls, ls \in [Lanes -> LaneState(Runs)], NEW l \in Lanes, NEW r
  PROVE  LET new == [ls EXCEPT ![l] = Release(@, r)]
         IN  /\ Lightened(ls, new)
             /\ \A k \in Lanes : new[k].active = IF k = l THEN ls[k].active \ {r} ELSE ls[k].active
<1> DEFINE new == [ls EXCEPT ![l] = Release(@, r)]
<1>1. /\ Release(ls[l], r) \in LaneState(Runs)
      /\ Release(ls[l], r).queue = ls[l].queue
      /\ Release(ls[l], r).maxConcurrent = ls[l].maxConcurrent
      /\ Release(ls[l], r).active = ls[l].active \ {r}
  BY DEF Release, LaneState
<1>2. new \in [Lanes -> LaneState(Runs)] /\ new[l] = Release(ls[l], r) /\ \A k \in Lanes : k # l => new[k] = ls[k]
  BY <1>1
<1> HIDE DEF new
<1> QED
  BY <1>1, <1>2 DEF Lightened, new

LEMMA ResetLightens ==
  ASSUME NEW ls, ls \in [Lanes -> LaneState(Runs)]
  PROVE  Lightened(ls, [l \in Lanes |-> ResetLane(ls[l])])
<1>1. ASSUME NEW l \in Lanes
      PROVE  /\ ResetLane(ls[l]) \in LaneState(Runs) /\ ResetLane(ls[l]).queue = ls[l].queue
             /\ ResetLane(ls[l]).active = {}
             /\ ResetLane(ls[l]).maxConcurrent = ls[l].maxConcurrent
  <2>1. ls[l] \in LaneState(Runs)
    OBVIOUS
  <2>2. ResetLane(ls[l]).maxConcurrent = ls[l].maxConcurrent
    BY <2>1 DEF ResetLane, LaneState
  <2> QED
    BY <2>1, <2>2, ResetLaneProper
<1> QED
  BY <1>1 DEF Lightened

\* A run that is submitted: it goes to the end of the queue of its session, or is refused.
LEMMA PushKeeps ==
  ASSUME IInv, NEW r \in Runs, NEW s \in Sessions, phase[r] = "idle"
  PROVE  LET pushed == [lanes EXCEPT ![s] = Push(@, r)]
             queued == [phase EXCEPT ![r] = "queued"]
             refused == [phase EXCEPT ![r] = "refused"]
             se == [session EXCEPT ![r] = s]
         IN  /\ Sound(pushed, queued, se) /\ Sound(lanes, refused, se)
             /\ Working(queued) = Working(phase) /\ Unseen(queued) = Unseen(phase) \ {r}
             /\ Working(refused) = Working(phase) /\ Unseen(refused) = Unseen(phase) \ {r}
             /\ HoldsSlot(lanes, phase, session) =>
                  HoldsSlot(pushed, queued, se) /\ HoldsSlot(lanes, refused, se)
<1> DEFINE pushed == [lanes EXCEPT ![s] = Push(@, r)]
           ph(x) == [phase EXCEPT ![r] = x]
           se == [session EXCEPT ![r] = s]
<1>1. /\ Sound(lanes, phase, session) /\ Typed(lanes, phase, session)
      /\ GlobalLane(lanes, phase, session) /\ EachIsInItsQueue(lanes, phase, session)
      /\ InOrder(phase, session) /\ \A k \in Sessions : SessionLane(k, lanes, phase, session)
      /\ Numbered
  BY DEF IInv, Sound
<1>2. s \in Lanes /\ s # Main
  BY Constants
<1>3. ProperLane(lanes[s], Runs)
  BY <1>1, <1>2, LanesAreProper
<1>4. /\ ProperLane(Push(lanes[s], r), Runs)
      /\ Push(lanes[s], r).active = lanes[s].active
      /\ Push(lanes[s], r).maxConcurrent = lanes[s].maxConcurrent
      /\ Len(Push(lanes[s], r).queue) = Len(lanes[s].queue) + 1
      /\ \A i \in 1 .. Len(lanes[s].queue) : Push(lanes[s], r).queue[i] = lanes[s].queue[i]
      /\ Push(lanes[s], r).queue[Len(lanes[s].queue) + 1] = r
      /\ Len(lanes[s].queue) \in Nat
  <2>1. Len(lanes[s].queue) \in Nat
    BY <1>3, LenProperties DEF ProperLane, LaneState
  <2> QED
    BY <1>3, <2>1, PushProper
<1>5. /\ pushed \in [Lanes -> LaneState(Runs)] /\ pushed[s] = Push(lanes[s], r)
      /\ \A l \in Lanes : l # s => pushed[l] = lanes[l]
  BY <1>1, <1>2, <1>4 DEF Typed, ProperLane
<1>6. /\ se \in [Runs -> Lanes] /\ se[r] = s /\ \A q \in Runs : q # r => se[q] = session[q]
  BY <1>1, <1>2 DEF Typed
<1>7. ASSUME NEW x \in {"queued", "refused"}
      PROVE  /\ ph(x) \in [Runs -> Phases] /\ ph(x)[r] = x /\ \A q \in Runs : q # r => ph(x)[q] = phase[q]
  BY <1>1 DEF Typed, Phases
<1> HIDE DEF pushed, ph, se
<1>8. \A l \in Lanes : \A i \in 1 .. Len(lanes[l].queue) :
        lanes[l].queue[i] \in Runs /\ lanes[l].queue[i] # r
  <2>1. \A l \in Lanes : \A i \in 1 .. Len(lanes[l].queue) : lanes[l].queue[i] \in Runs
    BY <1>1, LanesAreProper, LenProperties, ElementOfSeq DEF ProperLane, LaneState
  <2>2. \A l \in Lanes : \A i \in 1 .. Len(lanes[l].queue) : phase[lanes[l].queue[i]] # "idle"
    BY <1>1, Constants DEF SessionLane, GlobalLane
  <2> QED
    BY <2>1, <2>2
<1>9. ASSUME NEW x \in {"queued", "refused"}
      PROVE  /\ GlobalLane(lanes, ph(x), se) /\ InOrder(ph(x), se)
             /\ \A k \in Sessions : SessionLane(k, lanes, ph(x), se)
             /\ Working(ph(x)) = Working(phase) /\ Unseen(ph(x)) = Unseen(phase) \ {r}
             /\ HoldsSlot(lanes, phase, session) => HoldsSlot(lanes, ph(x), se)
  <2>1. GlobalLane(lanes, ph(x), se) /\ \A k \in Sessions : SessionLane(k, lanes, ph(x), se)
    <3>1. ASSUME NEW l \in Lanes, NEW i \in 1 .. Len(lanes[l].queue)
          PROVE  LET q == lanes[l].queue[i] IN ph(x)[q] = phase[q] /\ se[q] = session[q]
      BY <1>6, <1>7, <1>8
    <3>2. GlobalLane(lanes, ph(x), se)
      BY <1>1, <3>1, Constants DEF GlobalLane
    <3>3. ASSUME NEW k \in Sessions PROVE SessionLane(k, lanes, ph(x), se)
      <4>1. SessionLane(k, lanes, phase, session) /\ k \in Lanes
        BY <1>1, Constants
      <4> QED
        BY <3>1, <4>1 DEF SessionLane
    <3> QED
      BY <3>2, <3>3
  <2>2. Working(ph(x)) = Working(phase) /\ Unseen(ph(x)) = Unseen(phase) \ {r}
    BY <1>7 DEF Working, Unseen
  <2>3. HoldsSlot(lanes, phase, session) => HoldsSlot(lanes, ph(x), se)
    BY <1>6, <2>2 DEF HoldsSlot, Working
  <2>4. InOrder(ph(x), se)
    <3> SUFFICES ASSUME NEW a \in Runs, NEW b \in Runs, a < b, se[a] = se[b]
                 PROVE  /\ ph(x)[b] \in Started => ph(x)[a] # "queued"
                        /\ ph(x)[b] \in Begun => ph(x)[a] # "pending"
      BY DEF InOrder
    <3>1. CASE b = r
      BY <1>7, <3>1 DEF Started, Begun
    <3>2. CASE a = r
      <4>1. phase[b] = "idle" /\ b # r
        BY <1>1, <3>2, Constants DEF Numbered, Unseen
      <4> QED
        BY <1>7, <4>1 DEF Started, Begun
    <3>3. CASE a # r /\ b # r
      BY <1>1, <1>6, <1>7, <3>3 DEF InOrder
    <3> QED
      BY <3>1, <3>2, <3>3
  <2> QED
    BY <2>1, <2>2, <2>3, <2>4
<1>10. Sound(lanes, ph("refused"), se)
  <2>1. EachIsInItsQueue(lanes, ph("refused"), se)
    BY <1>1, <1>6, <1>7 DEF EachIsInItsQueue
  <2>2. Typed(lanes, ph("refused"), se)
    BY <1>1, <1>6, <1>7 DEF Typed
  <2> QED
    BY <1>9, <2>1, <2>2 DEF Sound
<1>11. Sound(pushed, ph("queued"), se)
  <2>1. EachIsInItsQueue(pushed, ph("queued"), se)
    <3> SUFFICES ASSUME NEW q \in Runs
                 PROVE  /\ ph("queued")[q] = "queued" => se[q] \in Sessions /\ q \in Queued(pushed[se[q]])
                        /\ ph("queued")[q] = "pending" => se[q] \in Sessions /\ q \in Queued(pushed[Main])
                        /\ ph("queued")[q] # "idle" => se[q] \in Sessions
      BY DEF EachIsInItsQueue
    <3>1. CASE q = r
      <4>1. r \in Queued(pushed[s])
        BY <1>4, <1>5 DEF Queued
      <4> QED
        BY <1>6, <1>7, <3>1, <4>1
    <3>2. CASE q # r
      <4>1. ASSUME NEW l \in Lanes PROVE Queued(lanes[l]) \subseteq Queued(pushed[l])
        <5>1. CASE l = s
          BY <1>4, <1>5, <5>1 DEF Queued
        <5>2. CASE l # s
          BY <1>5, <5>2
        <5> QED
          BY <5>1, <5>2
      <4> QED
        BY <1>1, <1>6, <1>7, <3>2, <4>1, Constants DEF EachIsInItsQueue
    <3> QED
      BY <3>1, <3>2
  <2>2. Typed(pushed, ph("queued"), se)
    BY <1>5, <1>6, <1>7 DEF Typed
  <2>3. GlobalLane(pushed, ph("queued"), se)
    BY <1>2, <1>5, <1>9, Constants DEF GlobalLane
  <2>4. ASSUME NEW k \in Sessions PROVE SessionLane(k, pushed, ph("queued"), se)
    <3>1. CASE k # s
      BY <1>5, <1>9, <3>1, Constants DEF SessionLane
    <3>2. CASE k = s
      <4> DEFINE n == Len(lanes[s].queue)
                 new == pushed[s].queue
      <4>1. /\ Len(new) = n + 1 /\ new[n + 1] = r /\ n \in Nat
            /\ \A i \in 1 .. n : new[i] = lanes[s].queue[i]
            /\ pushed[s].active = lanes[s].active /\ pushed[s].maxConcurrent = lanes[s].maxConcurrent
        BY <1>4, <1>5
      <4>2. SessionLane(s, lanes, ph("queued"), se)
        BY <1>9
      <4>3. \A i \in 1 .. n : lanes[s].queue[i] < r
        <5> TAKE i \in 1 .. n
        <5>1. lanes[s].queue[i] \in Runs /\ lanes[s].queue[i] # r /\ phase[lanes[s].queue[i]] # "idle"
          BY <1>1, <1>2, <1>8 DEF SessionLane
        <5>2. ~(r < lanes[s].queue[i])
          BY <1>1, <5>1 DEF Numbered, Unseen
        <5>3. r \in Nat /\ lanes[s].queue[i] \in Nat
          BY <5>1, Constants
        <5> QED
          BY <5>1, <5>2, <5>3
      <4> HIDE DEF n, new
      <4>4. \A i \in 1 .. Len(new) : i \in 1 .. n \/ i = n + 1
        BY <4>1
      <4>5. \A i \in 1 .. Len(new) : se[new[i]] = s /\ ph("queued")[new[i]] = "queued"
        BY <1>6, <1>7, <4>1, <4>2, <4>4 DEF SessionLane, n
      <4>6. \A i, j \in 1 .. Len(new) : i < j => new[i] < new[j]
        <5> TAKE i, j \in 1 .. Len(new)
        <5>1. i < j => i \in 1 .. n
          BY <4>1
        <5> QED
          BY <4>1, <4>2, <4>3, <4>4, <5>1 DEF SessionLane, n
      <4> QED
        BY <3>2, <4>1, <4>2, <4>5, <4>6 DEF SessionLane, new
    <3> QED
      BY <3>1, <3>2
  <2> QED
    BY <1>9, <2>1, <2>2, <2>3, <2>4 DEF Sound
<1>12. HoldsSlot(lanes, phase, session) => HoldsSlot(pushed, ph("queued"), se)
  BY <1>4, <1>5, <1>6, <1>9, <1>1 DEF HoldsSlot, Typed, Working
<1> QED
  BY <1>9, <1>10, <1>11, <1>12 DEF pushed, ph, se

-----------------------------------------------------------------------------
(* The actions.                                                            *)

LoopTyped ==
  /\ gatewayDraining \in BOOLEAN
  /\ loop \in {"starting", "waiting"} /\ server \in {"none", "up"} /\ listening \in BOOLEAN
  /\ shutdown \in {"no", "draining", "closing", "releasing", "relocking", "stopping"}
  /\ drain \in [tasks : SUBSET Runs, runs : BOOLEAN]
  /\ lock \in BOOLEAN /\ alive \in BOOLEAN /\ restarted \in BOOLEAN
  /\ timedOut \in BOOLEAN /\ missed \in BOOLEAN /\ signals \in 0 .. MaxSignals

LEMMA InvariantParts ==
  ASSUME IInv
  PROVE  /\ Sound(lanes, phase, session) /\ Typed(lanes, phase, session)
         /\ GenerationsTyped /\ LoopTyped
         /\ Numbered /\ FlagFollowsRestart /\ DrainsAreComplete
BY DEF IInv, TypeOK, Sound, Typed, GenerationsTyped, LoopTyped, Lanes

LEMMA InitIInv == Init => IInv
<1> SUFFICES ASSUME Init PROVE IInv
  OBVIOUS
<1>1. /\ NewLane \in LaneState(Runs) /\ NewLane.queue = << >> /\ NewLane.active = {}
      /\ NewLane.maxConcurrent = 1
      /\ [NewLane EXCEPT !.maxConcurrent = MainCap] \in LaneState(Runs)
      /\ [NewLane EXCEPT !.maxConcurrent = MainCap].queue = << >>
  <2>1. << >> \in Seq(Runs) /\ {} \in SUBSET Runs /\ MainCap \in Nat \ {0}
    BY Constants
  <2>2. /\ NewLane \in LaneState(Runs) /\ NewLane.queue = << >> /\ NewLane.active = {}
        /\ NewLane.maxConcurrent = 1
    BY <2>1, EmptySeq DEF NewLane, LaneState
  <2>3. ASSUME NEW lane \in LaneState(Runs)
        PROVE  /\ [lane EXCEPT !.maxConcurrent = MainCap] \in LaneState(Runs)
               /\ [lane EXCEPT !.maxConcurrent = MainCap].queue = lane.queue
    BY <2>1 DEF LaneState
  <2> QED
    BY <2>2, <2>3
<1>2. /\ lanes \in [Lanes -> LaneState(Runs)]
      /\ \A s \in Sessions : lanes[s] = NewLane
      /\ lanes[Main] = [NewLane EXCEPT !.maxConcurrent = MainCap]
  <2>1. lanes = [l \in Lanes |-> IF l = Main THEN [NewLane EXCEPT !.maxConcurrent = MainCap]
                                            ELSE NewLane]
    BY DEF Init
  <2> QED
    BY <1>1, <2>1, Constants
<1>3. /\ phase = [r \in Runs |-> "idle"] /\ session = [r \in Runs |-> Main]
      /\ generation = [r \in Runs |-> [session |-> 0, main |-> 0]]
  BY DEF Init
<1>4. Typed(lanes, phase, session) /\ GenerationsTyped
  BY <1>2, <1>3, Constants DEF Typed, GenerationsTyped, Phases
<1>5. \A l \in Lanes : lanes[l].queue = << >> /\ Len(lanes[l].queue) = 0
  <2>1. \A l \in Lanes : lanes[l].queue = << >>
    BY <1>1, <1>2, Constants
  <2>2. Len(<< >>) = 0
    OBVIOUS
  <2> QED
    BY <2>1, <2>2
<1>6. Sound(lanes, phase, session)
  <2>1. \A s \in Sessions : SessionLane(s, lanes, phase, session)
    BY <1>1, <1>2, <1>5, Constants DEF SessionLane
  <2>2. GlobalLane(lanes, phase, session)
    BY <1>5, Constants DEF GlobalLane
  <2>3. EachIsInItsQueue(lanes, phase, session) /\ InOrder(phase, session)
    BY <1>3 DEF EachIsInItsQueue, InOrder, Started, Begun
  <2> QED
    BY <1>4, <2>1, <2>2, <2>3 DEF Sound
<1>7. LoopTyped
  <2>1. drain \in [tasks : SUBSET Runs, runs : BOOLEAN]
    BY DEF Init, NoDrain
  <2>2. signals \in 0 .. MaxSignals
    BY Constants DEF Init
  <2> QED
    BY <2>1, <2>2 DEF Init, LoopTyped
<1>8. TypeOK
  BY <1>4, <1>7 DEF TypeOK, Typed, GenerationsTyped, LoopTyped, Lanes
<1>9. Numbered
  BY <1>3 DEF Numbered, Unseen
<1>10. FlagFollowsRestart /\ shutdown = "no" /\ Working(phase) = {}
  BY <1>3 DEF Init, FlagFollowsRestart, Restarting, Working
<1>11. DrainsAreComplete
  BY <1>10 DEF DrainsAreComplete, HoldsSlot, Closing
<1> QED
  BY <1>6, <1>8, <1>9, <1>10, <1>11 DEF IInv

LEMMA SubmitKeeps ==
  ASSUME IInv, NEW r \in Runs, NEW s \in Sessions, Submit(r, s)
  PROVE  IInv'
<1> DEFINE pushed == [lanes EXCEPT ![s] = Push(@, r)]
           queued == [phase EXCEPT ![r] = "queued"]
           refused == [phase EXCEPT ![r] = "refused"]
<1>1. /\ Sound(lanes, phase, session) /\ GenerationsTyped /\ LoopTyped
      /\ Numbered /\ FlagFollowsRestart /\ DrainsAreComplete
  BY InvariantParts
<1>2. /\ phase[r] = "idle" /\ \A q \in Runs : q < r => phase[q] # "idle"
      /\ session' = [session EXCEPT ![r] = s]
      /\ \/ gatewayDraining /\ phase' = refused /\ UNCHANGED << lanes, generation >>
         \/ ~gatewayDraining /\ \E arrivals \in HeadOrders({s}, pushed) :
                                  Drain({s}, pushed, queued, FALSE, arrivals)
      /\ UNCHANGED << gatewayDraining, loopVars >>
  BY DEF Submit
<1>3. /\ Sound(pushed, queued, session') /\ Sound(lanes, refused, session')
      /\ Working(queued) = Working(phase) /\ Unseen(queued) = Unseen(phase) \ {r}
      /\ Working(refused) = Working(phase) /\ Unseen(refused) = Unseen(phase) \ {r}
      /\ HoldsSlot(lanes, phase, session) =>
           HoldsSlot(pushed, queued, session') /\ HoldsSlot(lanes, refused, session')
  BY <1>2, PushKeeps
<1> HIDE DEF pushed, queued, refused
<1>4. /\ Sound(lanes', phase', session') /\ GenerationsTyped' /\ Unseen(phase') = Unseen(phase) \ {r}
      /\ gatewayDraining => Working(phase') \subseteq Working(phase)
      /\ HoldsSlot(lanes, phase, session) => HoldsSlot(lanes', phase', session')
  <2>1. CASE gatewayDraining
    BY <1>1, <1>2, <1>3, <2>1 DEF GenerationsTyped
  <2>2. CASE ~gatewayDraining
    <3>1. PICK arrivals \in HeadOrders({s}, pushed) : Drain({s}, pushed, queued, FALSE, arrivals)
      BY <1>2, <2>2
    <3>2. Ready({s}, pushed, queued, session', FALSE, arrivals)
      BY <1>3, <3>1 DEF Ready
    <3>3. /\ Sound(lanes', phase', session') /\ GenerationsTyped' /\ Unseen(phase') = Unseen(queued)
          /\ HoldsSlot(pushed, queued, session') => HoldsSlot(lanes', phase', session')
      BY <1>1, <3>1, <3>2, DrainKeeps
    <3> QED
      BY <1>3, <2>2, <3>3
  <2> QED
    BY <2>1, <2>2
<1>5. LoopTyped' /\ FlagFollowsRestart'
  BY <1>1, <1>2 DEF LoopTyped, FlagFollowsRestart, Restarting, loopVars
<1>6. TypeOK'
  BY <1>4, <1>5 DEF TypeOK, Sound, Typed, GenerationsTyped, LoopTyped, Lanes
<1>7. Numbered'
  <2> SUFFICES ASSUME NEW a \in Runs, NEW b \in Runs, a < b, a \in Unseen(phase')
               PROVE  b \in Unseen(phase')
    BY DEF Numbered
  <2>1. a \in Unseen(phase) /\ a # r /\ b \in Unseen(phase)
    BY <1>1, <1>4 DEF Numbered
  <2>2. b # r
    BY <1>2, <2>1 DEF Unseen
  <2> QED
    BY <1>4, <2>1, <2>2
<1>8. DrainsAreComplete'
  BY <1>1, <1>2, <1>4 DEF DrainsAreComplete, FlagFollowsRestart, Restarting, Closing, loopVars
<1> QED
  BY <1>4, <1>5, <1>6, <1>7, <1>8 DEF IInv

\* A task ends: the run goes on, or is over, and the lane that has still counted its task
\* is pumped.
TaskEnds(r, end, S, l, current) ==
  LET ended == Ended(phase, r, end)
      released == [lanes EXCEPT ![l] = Release(@, r)]
  IN
  /\ Ends(phase[r], end)
  /\ l \in Lanes /\ S \subseteq Sessions
  /\ l \in Sessions => r \notin Working(phase)
  /\ \/ current /\ \E arrivals \in HeadOrders(S, released) :
                     Drain(S, released, ended, gatewayDraining, arrivals)
     \/ ~current /\ phase' = ended /\ UNCHANGED << lanes, generation >>
  /\ UNCHANGED << gatewayDraining, session, loopVars >>

LEMMA TaskEndKeeps ==
  ASSUME IInv, NEW r \in Runs, NEW end, NEW S, NEW l, NEW current \in BOOLEAN,
         TaskEnds(r, end, S, l, current)
  PROVE  IInv'
<1> DEFINE ended == Ended(phase, r, end)
           released == [lanes EXCEPT ![l] = Release(@, r)]
<1>1. /\ Sound(lanes, phase, session) /\ Typed(lanes, phase, session)
      /\ GenerationsTyped /\ LoopTyped /\ Numbered /\ FlagFollowsRestart /\ DrainsAreComplete
  BY InvariantParts
<1>2. /\ Ends(phase[r], end) /\ l \in Lanes /\ S \subseteq Sessions
      /\ l \in Sessions => r \notin Working(phase)
      /\ \/ current /\ \E arrivals \in HeadOrders(S, released) :
                         Drain(S, released, ended, gatewayDraining, arrivals)
         \/ ~current /\ phase' = ended /\ UNCHANGED << lanes, generation >>
      /\ UNCHANGED << gatewayDraining, session, loopVars >>
  BY DEF TaskEnds
<1>3. /\ Lightened(lanes, released)
      /\ \A k \in Lanes : released[k].active =
           IF k = l THEN lanes[k].active \ {r} ELSE lanes[k].active
  BY <1>1, <1>2, ReleaseLightens DEF Typed
<1>4. /\ Sound(lanes, ended, session) /\ Working(ended) = Working(phase) \ {r}
      /\ Unseen(ended) = Unseen(phase)
  <2>1. Sound(lanes, phase, session) /\ Ends(phase[r], end)
    BY <1>1, <1>2
  <2> QED
    BY <2>1, EndKeeps
<1> HIDE DEF ended, released
<1>5. Sound(released, ended, session)
  BY <1>3, <1>4, LightenedKeeps
<1>6. HoldsSlot(lanes, phase, session) =>
        HoldsSlot(released, ended, session) /\ HoldsSlot(lanes, ended, session)
  <2> SUFFICES ASSUME HoldsSlot(lanes, phase, session), NEW q \in Working(ended)
               PROVE  q \in released[session[q]].active /\ q \in lanes[session[q]].active
    BY DEF HoldsSlot
  <2>1. q \in Working(phase) /\ q # r /\ q \in lanes[session[q]].active
    BY <1>4 DEF HoldsSlot
  <2>2. session[q] \in Lanes
    BY <1>1, <2>1 DEF Typed, Working
  <2> QED
    BY <1>3, <2>1, <2>2
<1>7. /\ Sound(lanes', phase', session') /\ GenerationsTyped' /\ Unseen(phase') = Unseen(phase)
      /\ gatewayDraining => Working(phase') \subseteq Working(phase)
      /\ HoldsSlot(lanes, phase, session) => HoldsSlot(lanes', phase', session')
  <2>1. CASE ~current
    BY <1>1, <1>2, <1>4, <1>6, <2>1 DEF GenerationsTyped
  <2>2. CASE current
    <3>1. PICK arrivals \in HeadOrders(S, released) :
            Drain(S, released, ended, gatewayDraining, arrivals)
      BY <1>2, <2>2
    <3>2. Ready(S, released, ended, session', gatewayDraining, arrivals)
      BY <1>1, <1>2, <1>5, <3>1 DEF Ready, LoopTyped
    <3>3. /\ Sound(lanes', phase', session') /\ GenerationsTyped' /\ Unseen(phase') = Unseen(ended)
          /\ gatewayDraining => Working(phase') \subseteq Working(ended)
          /\ HoldsSlot(released, ended, session') => HoldsSlot(lanes', phase', session')
      BY <1>1, <3>1, <3>2, DrainKeeps
    <3>4. session' = session
      BY <1>2
    <3> QED
      BY <1>4, <1>6, <3>3, <3>4
  <2> QED
    BY <2>1, <2>2
<1>8. LoopTyped' /\ FlagFollowsRestart'
  BY <1>1, <1>2 DEF LoopTyped, FlagFollowsRestart, Restarting, loopVars
<1>9. TypeOK'
  BY <1>7, <1>8 DEF TypeOK, Sound, Typed, GenerationsTyped, LoopTyped, Lanes
<1>10. Numbered'
  BY <1>1, <1>7 DEF Numbered
<1>11. DrainsAreComplete'
  BY <1>1, <1>2, <1>7 DEF DrainsAreComplete, FlagFollowsRestart, Restarting, Closing, loopVars
<1> QED
  BY <1>7, <1>8, <1>9, <1>10, <1>11 DEF IInv

LEMMA FinishExecutionKeeps ==
  ASSUME IInv, NEW r \in Runs, FinishExecution(r)
  PROVE  IInv'
<1> DEFINE current == generation[r].main = lanes[Main].generation
<1>1. TaskEnds(r, "unwinding", {}, Main, current)
  <2>1. << >> \in HeadOrders({}, [lanes EXCEPT ![Main] = Release(@, r)])
    BY NoArrivals
  <2>2. Ends(phase[r], "unwinding")
    BY DEF FinishExecution, Ends
  <2> QED
    BY <2>1, <2>2, Constants DEF FinishExecution, TaskEnds, Ended
<1>2. current \in BOOLEAN
  OBVIOUS
<1> QED
  BY <1>1, <1>2, TaskEndKeeps

LEMMA SettleKeeps ==
  ASSUME IInv, NEW r \in Runs, Settle(r)
  PROVE  IInv'
<1> DEFINE s == session[r]
           end == IF phase[r] = "unwinding" THEN "settled" ELSE "dropped"
           current == generation[r].session = lanes[s].generation
<1>1. Typed(lanes, phase, session) /\ EachIsInItsQueue(lanes, phase, session)
  BY InvariantParts DEF Sound
<1>2. Ends(phase[r], end) /\ r \notin Working(phase) /\ phase[r] # "idle"
  BY DEF Settle, Ends, Working
<1>3. s \in Sessions
  BY <1>1, <1>2 DEF EachIsInItsQueue
<1>4. [phase EXCEPT ![r] = IF @ = "unwinding" THEN "settled" ELSE "dropped"] = [phase EXCEPT ![r] = end]
  BY <1>1 DEF Typed
<1>5. TaskEnds(r, end, {s}, s, current)
  BY <1>2, <1>3, <1>4, Constants DEF Settle, TaskEnds, Ended
<1>6. current \in BOOLEAN
  OBVIOUS
<1> QED
  BY <1>5, <1>6, TaskEndKeeps

-----------------------------------------------------------------------------
(* The loop.                                                               *)

\* An action of the loop leaves the runs and their lanes alone.
LEMMA LanesUntouched ==
  ASSUME IInv, UNCHANGED << lanes, phase, session, generation >>
  PROVE  /\ Sound(lanes', phase', session') /\ GenerationsTyped' /\ Numbered'
         /\ Working(phase') = Working(phase)
         /\ HoldsSlot(lanes, phase, session) => HoldsSlot(lanes', phase', session')
         /\ ActiveTasks' = ActiveTasks
BY InvariantParts DEF GenerationsTyped, Numbered, Unseen, ActiveTasks

LEMMA PartsMakeInvariant ==
  ASSUME Sound(lanes, phase, session), GenerationsTyped, LoopTyped, Numbered,
         FlagFollowsRestart, DrainsAreComplete
  PROVE  IInv
BY DEF IInv, TypeOK, Sound, Typed, GenerationsTyped, LoopTyped, Lanes

\* What works holds the slot of its session, so it is among the tasks that are counted.
LEMMA WorkIsCounted ==
  ASSUME IInv, HoldsSlot(lanes, phase, session)
  PROVE  Working(phase) \subseteq ActiveTasks /\ ActiveTasks \subseteq Runs
<1>1. Typed(lanes, phase, session)
  BY InvariantParts
<1>2. ASSUME NEW r \in Working(phase) PROVE r \in ActiveTasks
  <2>1. r \in lanes[session[r]].active /\ session[r] \in Lanes
    BY <1>1 DEF HoldsSlot, Working, Typed
  <2> QED
    BY <2>1 DEF ActiveTasks
<1>3. \A l \in Lanes : lanes[l].active \subseteq Runs
  BY <1>1 DEF Typed, LaneState
<1> QED
  BY <1>2, <1>3 DEF ActiveTasks

\* A signal.  The drain waits for every task that holds a slot, so for all that works.
LEMMA RequestRestartKeeps == IInv /\ RequestRestart => IInv'
<1> SUFFICES ASSUME IInv, RequestRestart PROVE IInv'
  OBVIOUS
<1>1. LoopTyped /\ FlagFollowsRestart /\ DrainsAreComplete /\ Typed(lanes, phase, session)
  BY InvariantParts
<1>2. /\ Sound(lanes', phase', session') /\ GenerationsTyped' /\ Numbered'
      /\ Working(phase') = Working(phase)
      /\ HoldsSlot(lanes, phase, session) => HoldsSlot(lanes', phase', session')
  BY LanesUntouched DEF RequestRestart
<1>3. ActiveTasks \subseteq Runs
  BY <1>1 DEF ActiveTasks, Typed, LaneState
<1>4. LoopTyped'
  <2>1. drain' \in [tasks : SUBSET Runs, runs : BOOLEAN]
    BY <1>3 DEF RequestRestart
  <2>2. signals' \in 0 .. MaxSignals
    BY <1>1, Constants DEF RequestRestart, LoopTyped
  <2> QED
    BY <1>1, <2>1, <2>2 DEF RequestRestart, LoopTyped
<1>5. FlagFollowsRestart'
  BY DEF RequestRestart, FlagFollowsRestart, Restarting
<1>6. DrainsAreComplete'
  <2> SUFFICES ASSUME ~timedOut'
               PROVE  /\ HoldsSlot(lanes', phase', session')
                      /\ shutdown' = "draining" => Working(phase') \subseteq drain'.tasks
                      /\ Closing' => Working(phase') = {}
    BY DEF DrainsAreComplete
  <2>1. HoldsSlot(lanes, phase, session)
    BY <1>1 DEF DrainsAreComplete, RequestRestart
  <2>2. Working(phase) \subseteq ActiveTasks
    BY <2>1, WorkIsCounted
  <2>3. /\ drain'.tasks = ActiveTasks
        /\ shutdown' = "closing" => ActiveTasks = {}
        /\ Closing' => shutdown' = "closing"
    BY DEF RequestRestart, Closing
  <2> QED
    BY <1>2, <2>1, <2>2, <2>3
<1> QED
  BY <1>2, <1>4, <1>5, <1>6 DEF IInv, TypeOK, Sound, Typed, GenerationsTyped, LoopTyped, Lanes

\* The drain is over when none of the tasks it found is active any more: nothing works then.
LEMMA DrainCompletesKeeps == IInv /\ DrainCompletes => IInv'
<1> SUFFICES ASSUME IInv, DrainCompletes PROVE IInv'
  OBVIOUS
<1>1. LoopTyped /\ FlagFollowsRestart /\ DrainsAreComplete
  BY InvariantParts
<1>2. /\ Sound(lanes', phase', session') /\ GenerationsTyped' /\ Numbered'
      /\ Working(phase') = Working(phase)
      /\ HoldsSlot(lanes, phase, session) => HoldsSlot(lanes', phase', session')
  BY LanesUntouched DEF DrainCompletes, laneVars
<1>3. LoopTyped'
  BY <1>1 DEF DrainCompletes, LoopTyped, NoDrain, laneVars
<1>4. FlagFollowsRestart'
  BY <1>1 DEF DrainCompletes, FlagFollowsRestart, Restarting, laneVars
<1>5. DrainsAreComplete'
  <2> SUFFICES ASSUME ~timedOut
               PROVE  HoldsSlot(lanes', phase', session') /\ Working(phase') = {}
    BY DEF DrainsAreComplete, DrainCompletes
  <2>1. HoldsSlot(lanes, phase, session) /\ Working(phase) \subseteq drain.tasks
    BY <1>1 DEF DrainsAreComplete, DrainCompletes
  <2>2. Working(phase) \subseteq ActiveTasks
    BY <2>1, WorkIsCounted
  <2>3. drain.tasks \cap ActiveTasks = {}
    BY DEF DrainCompletes
  <2> QED
    BY <1>2, <2>1, <2>2, <2>3
<1> QED
  BY <1>2, <1>3, <1>4, <1>5 DEF IInv, TypeOK, Sound, Typed, GenerationsTyped, LoopTyped, Lanes

\* The other steps of the loop that leave the lanes alone.
LEMMA LoopKeeps ==
  ASSUME IInv,
         StartSucceeds \/ StartFails \/ RequestStop \/ DrainTimesOut \/ CloseServer \/ Exit
  PROVE  IInv'
<1>1. LoopTyped /\ FlagFollowsRestart /\ DrainsAreComplete
  BY InvariantParts
<1>2. /\ Sound(lanes', phase', session') /\ GenerationsTyped' /\ Numbered'
      /\ Working(phase') = Working(phase)
      /\ HoldsSlot(lanes, phase, session) => HoldsSlot(lanes', phase', session')
  BY LanesUntouched
     DEF StartSucceeds, StartFails, RequestStop, DrainTimesOut, CloseServer, Exit, laneVars
<1>3. /\ timedOut' \in BOOLEAN /\ (~timedOut' => ~timedOut)
      /\ missed' = missed /\ gatewayDraining' = gatewayDraining
  BY <1>1
     DEF StartSucceeds, StartFails, RequestStop, DrainTimesOut, CloseServer, Exit, laneVars, LoopTyped
<1>4. /\ drain' \in [tasks : SUBSET Runs, runs : BOOLEAN]
      /\ shutdown' = "draining" => shutdown = "draining" /\ drain' = drain
      /\ Closing' => timedOut' \/ Closing
      /\ Restarting' => Restarting
      /\ shutdown' = "no" => shutdown = "no"
  <2>1. CASE StartSucceeds \/ StartFails \/ Exit
    BY <1>1, <2>1 DEF StartSucceeds, StartFails, Exit, LoopTyped, Closing, Restarting
  <2>2. CASE RequestStop
    BY <1>1, <2>2 DEF RequestStop, LoopTyped, Restarting, Closing
  <2>3. CASE DrainTimesOut
    BY <1>1, <2>3 DEF DrainTimesOut, LoopTyped, NoDrain, Restarting, Closing
  <2>4. CASE CloseServer
    BY <1>1, <2>4 DEF CloseServer, LoopTyped, Closing, Restarting
  <2> QED
    BY <2>1, <2>2, <2>3, <2>4
<1>5. signals' \in 0 .. MaxSignals
  <2>1. CASE RequestStop
    BY <1>1, <2>1, Constants DEF RequestStop, LoopTyped
  <2>2. CASE StartSucceeds \/ StartFails \/ DrainTimesOut \/ CloseServer \/ Exit
    BY <1>1, <2>2 DEF StartSucceeds, StartFails, DrainTimesOut, CloseServer, Exit, LoopTyped
  <2> QED
    BY <2>1, <2>2
<1>6. LoopTyped'
  <2>1. /\ loop' \in {"starting", "waiting"} /\ server' \in {"none", "up"} /\ listening' \in BOOLEAN
        /\ shutdown' \in {"no", "draining", "closing", "releasing", "relocking", "stopping"}
        /\ lock' \in BOOLEAN /\ alive' \in BOOLEAN /\ restarted' \in BOOLEAN
    BY <1>1
       DEF StartSucceeds, StartFails, RequestStop, DrainTimesOut, CloseServer, Exit, LoopTyped
  <2> QED
    BY <1>1, <1>3, <1>4, <1>5, <2>1 DEF LoopTyped
<1>7. FlagFollowsRestart'
  BY <1>1, <1>3, <1>4 DEF FlagFollowsRestart
<1>8. DrainsAreComplete'
  BY <1>1, <1>2, <1>3, <1>4 DEF DrainsAreComplete, Closing
<1> QED
  BY <1>2, <1>6, <1>7, <1>8 DEF IInv, TypeOK, Sound, Typed, GenerationsTyped, LoopTyped, Lanes

\* The restart is over: the lanes are reset, which forgets the tasks in their slots, and
\* pumped.  What it forgets has ended unless a drain timed out, so that what it starts
\* holds the slots again.
LEMMA ResumeLoopKeeps ==
  ASSUME IInv, Closing, ResumeLoop, lock' \in BOOLEAN,
         UNCHANGED << server, listening, drain, alive, restarted, signals, timedOut >>
  PROVE  IInv'
<1> DEFINE reset == [l \in Lanes |-> ResetLane(lanes[l])]
<1>1. /\ Sound(lanes, phase, session) /\ Typed(lanes, phase, session) /\ GenerationsTyped
      /\ LoopTyped /\ Numbered /\ DrainsAreComplete
  BY InvariantParts
<1>2. /\ shutdown' = "no" /\ missed' = (loop = "starting")
      /\ \/ /\ loop = "waiting" /\ loop' = "starting" /\ gatewayDraining' = FALSE
            /\ session' = session
            /\ \E arrivals \in HeadOrders(Sessions, reset) :
                 Drain(Sessions, reset, phase, FALSE, arrivals)
         \/ /\ loop # "waiting"
            /\ UNCHANGED << loop, lanes, gatewayDraining, phase, session, generation >>
  BY DEF ResumeLoop, ResetAllLanes, laneVars
<1> HIDE DEF reset
<1>3. /\ Sound(lanes', phase', session') /\ GenerationsTyped' /\ Unseen(phase') = Unseen(phase)
      /\ ~timedOut => HoldsSlot(lanes', phase', session')
  <2>1. CASE loop # "waiting"
    BY <1>1, <1>2, <2>1 DEF GenerationsTyped, DrainsAreComplete
  <2>2. CASE loop = "waiting"
    <3>1. Sound(reset, phase, session)
      <4>1. Lightened(lanes, reset)
        BY <1>1, ResetLightens DEF Typed, reset
      <4> QED
        BY <1>1, <4>1, LightenedKeeps
    <3>2. PICK arrivals \in HeadOrders(Sessions, reset) :
            Drain(Sessions, reset, phase, FALSE, arrivals)
      BY <1>2, <2>2
    <3>3. session' = session
      BY <1>2, <2>2
    <3>4. Ready(Sessions, reset, phase, session', FALSE, arrivals)
      BY <3>1, <3>2, <3>3 DEF Ready
    <3>5. /\ Sound(lanes', phase', session') /\ GenerationsTyped' /\ Unseen(phase') = Unseen(phase)
          /\ HoldsSlot(reset, phase, session') => HoldsSlot(lanes', phase', session')
      BY <1>1, <3>2, <3>4, DrainKeeps
    <3>6. ~timedOut => HoldsSlot(reset, phase, session')
      BY <1>1 DEF DrainsAreComplete, HoldsSlot
    <3> QED
      BY <3>5, <3>6
  <2> QED
    BY <2>1, <2>2
<1>4. LoopTyped' /\ FlagFollowsRestart'
  BY <1>1, <1>2 DEF LoopTyped, FlagFollowsRestart, Restarting
<1>5. Numbered'
  BY <1>1, <1>3 DEF Numbered
<1>6. DrainsAreComplete'
  BY <1>2, <1>3 DEF DrainsAreComplete, Closing
<1> QED
  BY <1>3, <1>4, <1>5, <1>6 DEF IInv, TypeOK, Sound, Typed, GenerationsTyped, LoopTyped, Lanes

LEMMA RestartEndKeeps == IInv /\ (ReleaseLock \/ Reacquire) => IInv'
<1> SUFFICES ASSUME IInv, ReleaseLock \/ Reacquire PROVE IInv'
  OBVIOUS
<1>1. Closing
  BY DEF ReleaseLock, Reacquire, Closing
<1>2. CASE Reacquire \/ (ReleaseLock /\ ~lock)
  <2>1. /\ ResumeLoop /\ lock' \in BOOLEAN
        /\ UNCHANGED << server, listening, drain, alive, restarted, signals, timedOut >>
    BY <1>2 DEF ReleaseLock, Reacquire
  <2> QED
    BY <1>1, <2>1, ResumeLoopKeeps
<1>3. CASE ReleaseLock /\ lock
  <2>1. LoopTyped /\ FlagFollowsRestart /\ DrainsAreComplete
    BY InvariantParts
  <2>2. /\ shutdown = "releasing" /\ shutdown' = "relocking" /\ lock' = FALSE
        /\ UNCHANGED << loop, laneVars, missed >>
        /\ UNCHANGED << server, listening, drain, alive, restarted, signals, timedOut >>
    BY <1>3 DEF ReleaseLock
  <2>3. /\ Sound(lanes', phase', session') /\ GenerationsTyped' /\ Numbered'
        /\ Working(phase') = Working(phase)
        /\ HoldsSlot(lanes, phase, session) => HoldsSlot(lanes', phase', session')
    BY <2>2, LanesUntouched DEF laneVars
  <2>4. LoopTyped' /\ FlagFollowsRestart'
    BY <2>1, <2>2 DEF LoopTyped, FlagFollowsRestart, Restarting, laneVars
  <2>5. DrainsAreComplete'
    BY <1>1, <2>1, <2>2, <2>3 DEF DrainsAreComplete
  <2> QED
    BY <2>3, <2>4, <2>5 DEF IInv, TypeOK, Sound, Typed, GenerationsTyped, LoopTyped, Lanes
<1> QED
  BY <1>2, <1>3

-----------------------------------------------------------------------------
(* The theorems.                                                           *)

LEMMA NextIInv == IInv /\ [Next]_vars => IInv'
<1> SUFFICES ASSUME IInv, [Next]_vars PROVE IInv'
  OBVIOUS
<1>1. CASE \E r \in Runs, s \in Sessions : Submit(r, s)
  BY <1>1, SubmitKeeps
<1>2. CASE \E r \in Runs : FinishExecution(r) \/ Settle(r)
  BY <1>2, FinishExecutionKeeps, SettleKeeps
<1>3. CASE RequestRestart \/ DrainCompletes
  BY <1>3, RequestRestartKeeps, DrainCompletesKeeps
<1>4. CASE StartSucceeds \/ StartFails \/ RequestStop \/ DrainTimesOut \/ CloseServer \/ Exit
  BY <1>4, LoopKeeps
<1>5. CASE ReleaseLock \/ Reacquire
  BY <1>5, RestartEndKeeps
<1>6. CASE UNCHANGED vars
  <2>1. LoopTyped /\ FlagFollowsRestart /\ DrainsAreComplete
    BY InvariantParts
  <2>2. /\ Sound(lanes', phase', session') /\ GenerationsTyped' /\ Numbered'
        /\ Working(phase') = Working(phase)
        /\ HoldsSlot(lanes, phase, session) => HoldsSlot(lanes', phase', session')
    BY <1>6, LanesUntouched DEF vars, laneVars
  <2>3. LoopTyped' /\ FlagFollowsRestart' /\ DrainsAreComplete'
    BY <1>6, <2>1, <2>2
       DEF LoopTyped, FlagFollowsRestart, Restarting, Closing, DrainsAreComplete,
           vars, laneVars, loopVars
  <2> QED
    BY <2>2, <2>3 DEF IInv, TypeOK, Sound, Typed, GenerationsTyped, LoopTyped, Lanes
<1> QED
  BY <1>1, <1>2, <1>3, <1>4, <1>5, <1>6 DEF Next

LEMMA Invariant == Spec => []IInv
BY InitIInv, NextIInv, PTL DEF Spec

\* The types of the composed state are kept by every action: the lanes of agent runs,
\* their phases and generations, and the variables of the gateway loop.
THEOREM TypeCorrect == Spec => []TypeOK
BY Invariant, PTL DEF IInv

\* No run of a session starts to work while an older one still waits, through both queues
\* and through the reset of a restart.
THEOREM SessionRunsStartInOrder == Spec => []SessionOrder
<1>1. IInv => SessionOrder
  <2> SUFFICES ASSUME IInv, NEW r \in Runs, NEW q \in Runs, r < q, session[r] = session[q],
                      phase[q] \in {"executing", "unwinding", "settled"}
               PROVE  ~Waiting(r)
    BY DEF SessionOrder
  <2>1. InOrder(phase, session)
    BY DEF IInv, Sound
  <2> QED
    BY <2>1 DEF InOrder, Started, Begun, Waiting
<1> QED
  BY <1>1, Invariant, PTL

\* Two runs work on one session only after a drain has timed out: what a reset forgets
\* has ended otherwise.
THEOREM OneRunPerSession == Spec => []OneRunPerSessionIfDrained
<1>1. IInv => OneRunPerSessionIfDrained
  <2> SUFFICES ASSUME IInv, ~timedOut, NEW r \in Executing, NEW q \in Executing,
                      session[r] = session[q]
               PROVE  r = q
    BY DEF OneRunPerSessionIfDrained
  <2>1. HoldsSlot(lanes, phase, session) /\ EachIsInItsQueue(lanes, phase, session)
    BY DEF IInv, Sound, DrainsAreComplete
  <2>2. r \in lanes[session[r]].active /\ q \in lanes[session[r]].active
    BY <2>1 DEF HoldsSlot, Working, Executing
  <2>3. session[r] \in Sessions
    BY <2>1 DEF EachIsInItsQueue, Executing
  <2>4. SessionLane(session[r], lanes, phase, session)
    BY <2>3 DEF IInv, Sound
  <2> QED
    BY <2>2, <2>4 DEF SessionLane
<1> QED
  BY <1>1, Invariant, PTL

\* A gateway that serves, with no restart under way, accepts work, unless the last restart
\* found no promise to resolve.
THEOREM ServingGatewayAcceptsWork == Spec => []ServingGatewayAccepts
<1>1. IInv => ServingGatewayAccepts
  BY DEF IInv, FlagFollowsRestart, ServingGatewayAccepts
<1> QED
  BY <1>1, Invariant, PTL
-----------------------------------------------------------------------------
(***************************************************************************)
(* No deadlock.  A run that waits in either queue waits for a slot that is *)
(* held, and whoever holds one is on its way: a session slot by a run that *)
(* has not finished, a global slot by one that works and whose end will be *)
(* counted.  So some run can take a step as long as one waits, which is    *)
(* all of WaitingRunMoves but the fairness.                                *)
(***************************************************************************)

Unfinished == {"pending", "executing", "unwinding", "rejecting"}

\* A slot is held by a run whose end frees it: its task has the generation of the lane,
\* and it has not ended.
SessionSlots(s, ls, ph, se, ge) ==
  \A r \in ls[s].active :
    /\ se[r] = s /\ ph[r] \in Unfinished
    /\ ge[r].session = ls[s].generation
    /\ ph[r] = "executing" => ge[r].main = ls[Main].generation

GlobalSlots(ls, ph, ge) ==
  \A r \in ls[Main].active : ph[r] = "executing" /\ ge[r].main = ls[Main].generation

SlotsAreHeld(ls, ph, se, ge) ==
  /\ \A s \in Sessions : SessionSlots(s, ls, ph, se, ge)
  /\ GlobalSlots(ls, ph, ge)

\* Nothing waits for a slot while all are free.
Busy(lane) == lane.queue # << >> => lane.active # {}

SlotIInv ==
  /\ SlotsAreHeld(lanes, phase, session, generation)
  /\ \A l \in Lanes : Busy(lanes[l])

\* The end of its work is counted by the global lane, or its session task can end.
CanEnd(r) ==
  \/ phase[r] = "executing" /\ generation[r].main = lanes[Main].generation
  \/ phase[r] \in {"unwinding", "rejecting"}

SomeRunCanEnd == \A r \in Runs : Waiting(r) => \E q \in Runs : CanEnd(q)

\* A pump leaves no entry beside free slots only.
LEMMA PumpedIsBusy ==
  ASSUME NEW ls, ProperLane(ls, Runs)
  PROVE  Busy(Pump(ls))
<1>1. /\ PumpCount(ls) \in 0 .. Len(ls.queue) /\ Len(ls.queue) \in Nat
      /\ Len(Pump(ls).queue) \in Nat /\ Len(Pump(ls).queue) = Len(ls.queue) - PumpCount(ls)
      /\ Pump(ls).queue \in Seq(Runs)
      /\ PumpCount(ls) < Len(ls.queue) =>
           Cardinality(ls.active) + PumpCount(ls) >= ls.maxConcurrent
  BY PumpCountBounds, PumpQueue, LenProperties DEF ProperLane, LaneState
<1>2. /\ Cardinality(ls.active) \in Nat /\ ls.maxConcurrent \in Nat /\ ls.maxConcurrent > 0
      /\ Cardinality(ls.active) > 0 => ls.active # {}
  BY FS_CardinalityType, FS_EmptySet DEF ProperLane, LaneState
<1>3. PumpCount(ls) > 0 => Pumped(ls) # {}
  BY <1>1 DEF Pumped
<1>4. Pump(ls).active = ls.active \cup Pumped(ls)
  BY PumpFields
<1> SUFFICES ASSUME Pump(ls).queue # << >> PROVE Pump(ls).active # {}
  BY DEF Busy
<1>5. Len(Pump(ls).queue) # 0
  BY <1>1, EmptySeq
<1>6. Cardinality(ls.active) + PumpCount(ls) >= ls.maxConcurrent
  BY <1>1, <1>5
<1>7. Cardinality(ls.active) > 0 \/ PumpCount(ls) > 0
  BY <1>1, <1>2, <1>6
<1> QED
  BY <1>2, <1>3, <1>4, <1>7

\* What Drain makes of one run and of one lane.
LEMMA DrainResult ==
  ASSUME NEW S, NEW ls, NEW ph, NEW draining, NEW arrivals,
         Ready(S, ls, ph, session', draining, arrivals), Drain(S, ls, ph, draining, arrivals)
  PROVE  LET past == LanesPastSessions(S, ls, draining, arrivals)
         IN  /\ lanes'[Main] = Pump(past[Main])
             /\ \A s \in Sessions : lanes'[s] = IF s \in S THEN Pump(ls[s]) ELSE ls[s]
             /\ ProperLane(past[Main], Runs)
             /\ past[Main].active = ls[Main].active /\ past[Main].generation = ls[Main].generation
             /\ \A r \in Runs :
                  /\ phase'[r] = IF r \in Pumped(past[Main]) THEN "executing"
                                 ELSE IF r \in Heads(S, ls)
                                      THEN IF draining THEN "rejecting" ELSE "pending"
                                 ELSE ph[r]
                  /\ generation'[r].session =
                       IF r \in Heads(S, ls) THEN ls[session'[r]].generation ELSE generation[r].session
                  /\ generation'[r].main =
                       IF r \in Pumped(past[Main]) THEN ls[Main].generation ELSE generation[r].main
<1> DEFINE past == LanesPastSessions(S, ls, draining, arrivals)
           after == PhasesPastSessions(S, ls, ph, draining)
<1>1. S \in SUBSET Sessions /\ draining \in BOOLEAN /\ Typed(ls, ph, session')
  BY DEF Ready, Sound
<1>2. lanes' = LanesPastGlobal(past) /\ phase' = PhasesPastGlobal(past, after)
  BY <1>1, DrainInTwoSteps
<1>3. /\ past \in [Lanes -> LaneState(Runs)]
      /\ \A s \in Sessions : past[s] = IF s \in S THEN Pump(ls[s]) ELSE ls[s]
      /\ past[Main].active = ls[Main].active /\ past[Main].generation = ls[Main].generation
  BY PastSessions
<1>4. past[Main] = IF draining THEN ls[Main] ELSE [ls[Main] EXCEPT !.queue = @ \o arrivals]
  <2>1. Main \in Lanes /\ Main \notin S
    BY <1>1, Constants
  <2> QED
    BY <1>1, <2>1 DEF LanesPastSessions
<1>5. generation' = [r \in Runs |->
        [ session |-> IF r \in Heads(S, ls) THEN ls[session'[r]].generation ELSE generation[r].session,
          main |-> IF r \in Pumped(past[Main]) THEN ls[Main].generation ELSE generation[r].main ]]
  <2> HIDE DEF past
  <2> QED
    BY <1>4 DEF Drain, Heads
<1> HIDE DEF past
<1>6. ProperLane(past[Main], Runs)
  <2>1. ls[Main].active \in SUBSET Runs
    BY <1>1, Constants DEF Typed, LaneState
  <2>2. IsFiniteSet(ls[Main].active)
    BY <2>1, Constants, FS_Subset
  <2> QED
    BY <1>3, <2>2, Constants DEF ProperLane
<1>7. /\ lanes'[Main] = Pump(past[Main])
      /\ \A s \in Sessions : lanes'[s] = IF s \in S THEN Pump(ls[s]) ELSE ls[s]
  BY <1>2, <1>3, Constants DEF LanesPastGlobal
<1>8. \A r \in Runs : phase'[r] = IF r \in Pumped(past[Main]) THEN "executing"
                                  ELSE IF r \in Heads(S, ls)
                                       THEN IF draining THEN "rejecting" ELSE "pending"
                                  ELSE ph[r]
  BY <1>2 DEF PhasesPastGlobal, PhasesPastSessions
<1> QED
  BY <1>3, <1>5, <1>6, <1>7, <1>8 DEF past

\* Drain gives slots to runs that hold them, and leaves no free lane with entries if those
\* it does not pump were none.
LEMMA DrainHolds ==
  ASSUME NEW S, NEW ls, NEW ph, NEW draining, NEW arrivals,
         Ready(S, ls, ph, session', draining, arrivals), Drain(S, ls, ph, draining, arrivals),
         SlotsAreHeld(ls, ph, session', generation),
         \A s \in Sessions \ S : Busy(ls[s])
  PROVE  SlotIInv'
<1> DEFINE global == LanesPastSessions(S, ls, draining, arrivals)[Main]
           heads == Heads(S, ls)
<1>1. /\ lanes'[Main] = Pump(global)
      /\ \A s \in Sessions : lanes'[s] = IF s \in S THEN Pump(ls[s]) ELSE ls[s]
      /\ ProperLane(global, Runs)
      /\ global.active = ls[Main].active /\ global.generation = ls[Main].generation
      /\ \A r \in Runs :
           /\ phase'[r] = IF r \in Pumped(global) THEN "executing"
                          ELSE IF r \in heads THEN IF draining THEN "rejecting" ELSE "pending"
                          ELSE ph[r]
           /\ generation'[r].session =
                IF r \in heads THEN ls[session'[r]].generation ELSE generation[r].session
           /\ generation'[r].main =
                IF r \in Pumped(global) THEN ls[Main].generation ELSE generation[r].main
  BY DrainResult
<1>2. /\ \A r \in heads : r \in Runs /\ ph[r] = "queued" /\ session'[r] \in S
      /\ \A s \in S : Pumped(ls[s]) \subseteq heads
  BY HeadsOfSessions
<1>3. Typed(ls, ph, session') /\ S \subseteq Sessions /\ draining \in BOOLEAN
  BY DEF Ready, Sound
<1> HIDE DEF global, heads
<1>4. \A l \in Lanes : ProperLane(ls[l], Runs) /\ ls[l].active \subseteq Runs
  <2> TAKE l \in Lanes
  <2>1. ProperLane(ls[l], Runs)
    BY <1>3, LanesAreProper
  <2> QED
    BY <2>1 DEF ProperLane, LaneState
<1>5. /\ Pump(global).active = ls[Main].active \cup Pumped(global)
      /\ Pump(global).generation = ls[Main].generation
      /\ Pumped(global) \subseteq Runs
  BY <1>1, PumpFields, PumpedIsFinite
<1>6. ASSUME NEW s \in Sessions
      PROVE  /\ lanes'[s].generation = ls[s].generation
             /\ lanes'[s].active \subseteq ls[s].active \cup (IF s \in S THEN Pumped(ls[s]) ELSE {})
  <2>1. ProperLane(ls[s], Runs)
    BY <1>4, Constants
  <2>2. Pump(ls[s]).active = ls[s].active \cup Pumped(ls[s]) /\ Pump(ls[s]).generation = ls[s].generation
    BY <2>1, PumpFields
  <2> QED
    BY <1>1, <2>2
<1>7. ASSUME NEW s \in Sessions, NEW r \in lanes'[s].active
      PROVE  /\ session'[r] = s /\ phase'[r] \in Unfinished
             /\ generation'[r].session = lanes'[s].generation
             /\ phase'[r] = "executing" => generation'[r].main = lanes'[Main].generation
  <2>1. CASE r \in ls[s].active
    <3>1. /\ session'[r] = s /\ ph[r] \in Unfinished /\ generation[r].session = ls[s].generation
          /\ ph[r] = "executing" => generation[r].main = ls[Main].generation
      BY <2>1 DEF SlotsAreHeld, SessionSlots
    <3>2. r \in Runs /\ r \notin heads
      BY <1>2, <1>4, <2>1, <3>1, Constants DEF Unfinished
    <3> QED
      BY <1>1, <1>5, <1>6, <3>1, <3>2 DEF Unfinished
  <2>2. CASE s \in S /\ r \in Pumped(ls[s])
    <3>1. r \in heads /\ r \in Runs
      BY <1>2, <2>2
    <3>2. session'[r] = s
      BY <2>2, HeadIsFirst DEF Ready
    <3>3. phase'[r] = "executing" => r \in Pumped(global)
      BY <1>1, <3>1
    <3> QED
      BY <1>1, <1>5, <1>6, <3>1, <3>2, <3>3 DEF Unfinished
  <2> QED
    BY <1>6, <2>1, <2>2
<1>8. ASSUME NEW r \in lanes'[Main].active
      PROVE  phase'[r] = "executing" /\ generation'[r].main = lanes'[Main].generation
  <2>1. CASE r \in Pumped(global)
    BY <1>1, <1>5, <2>1
  <2>2. CASE r \in ls[Main].active /\ r \notin Pumped(global)
    <3>1. ph[r] = "executing" /\ generation[r].main = ls[Main].generation
      BY <2>2 DEF SlotsAreHeld, GlobalSlots
    <3>2. r \in Runs /\ r \notin heads
      BY <1>2, <1>4, <2>2, <3>1, Constants
    <3> QED
      BY <1>1, <1>5, <2>2, <3>1, <3>2
  <2> QED
    BY <1>1, <1>5, <2>1, <2>2
<1>9. ASSUME NEW l \in Lanes PROVE Busy(lanes'[l])
  <2>1. CASE l = Main
    BY <1>1, <2>1, PumpedIsBusy
  <2>2. CASE l \in S
    BY <1>1, <1>3, <1>4, <2>2, PumpedIsBusy, Constants
  <2>3. CASE l \in Sessions \ S
    BY <1>1, <2>3
  <2> QED
    BY <2>1, <2>2, <2>3, Constants
<1> QED
  BY <1>7, <1>8, <1>9 DEF SlotIInv, SlotsAreHeld, SessionSlots, GlobalSlots

-----------------------------------------------------------------------------
(* The actions.                                                            *)

LEMMA SlotInit == Init => SlotIInv
<1> SUFFICES ASSUME Init PROVE SlotIInv
  OBVIOUS
<1>1. /\ NewLane.queue = << >> /\ NewLane.active = {}
      /\ [NewLane EXCEPT !.maxConcurrent = MainCap].queue = << >>
      /\ [NewLane EXCEPT !.maxConcurrent = MainCap].active = {}
  BY DEF NewLane
<1>2. \A l \in Lanes : lanes[l].queue = << >> /\ lanes[l].active = {}
  BY <1>1 DEF Init
<1> QED
  BY <1>2, Constants DEF SlotIInv, SlotsAreHeld, SessionSlots, GlobalSlots, Busy

\* A run that is submitted holds no slot yet.
LEMMA SubmitHolds ==
  ASSUME IInv, SlotIInv, NEW r \in Runs, NEW s \in Sessions, Submit(r, s)
  PROVE  SlotIInv'
<1> DEFINE pushed == [lanes EXCEPT ![s] = Push(@, r)]
           ph(to) == [phase EXCEPT ![r] = to]
<1>1. /\ phase[r] = "idle" /\ session' = [session EXCEPT ![r] = s]
      /\ \/ phase' = ph("refused") /\ UNCHANGED << lanes, generation >>
         \/ \E arrivals \in HeadOrders({s}, pushed) : Drain({s}, pushed, ph("queued"), FALSE, arrivals)
  BY DEF Submit
<1>2. Sound(pushed, ph("queued"), session')
  BY <1>1, PushKeeps
<1>3. Typed(lanes, phase, session) /\ SlotsAreHeld(lanes, phase, session, generation)
  BY InvariantParts DEF SlotIInv
<1>4. /\ \A k \in Lanes : /\ pushed[k].active = lanes[k].active
                          /\ pushed[k].generation = lanes[k].generation
      /\ \A k \in Lanes : k # s => pushed[k] = lanes[k]
  <2>1. Push(lanes[s], r).active = lanes[s].active /\ Push(lanes[s], r).generation = lanes[s].generation
    BY <1>3, LanesAreProper, PushProper, Constants
  <2> QED
    BY <1>3, <2>1, Constants DEF Typed
<1>5. ASSUME NEW q \in Runs, NEW to, phase[q] \in Unfinished
      PROVE  ph(to)[q] = phase[q] /\ session'[q] = session[q]
  BY <1>1, <1>3, <1>5 DEF Typed, Unfinished
<1>6. \A k \in Lanes : lanes[k].active \subseteq Runs
  BY <1>3 DEF Typed, LaneState
<1> HIDE DEF pushed, ph
<1>7. ASSUME NEW ls, NEW to,
             \A k \in Lanes : /\ ls[k].active = lanes[k].active /\ ls[k].generation = lanes[k].generation
      PROVE  SlotsAreHeld(ls, ph(to), session', generation)
  <2>1. ASSUME NEW k \in Sessions PROVE SessionSlots(k, ls, ph(to), session', generation)
    <3>1. SessionSlots(k, lanes, phase, session, generation)
      BY <1>3 DEF SlotsAreHeld
    <3> QED
      BY <1>5, <1>6, <1>7, <3>1, Constants DEF SessionSlots
  <2>2. GlobalSlots(ls, ph(to), generation)
    <3>1. /\ GlobalSlots(lanes, phase, generation) /\ Main \in Lanes
          /\ ls[Main].active = lanes[Main].active /\ ls[Main].generation = lanes[Main].generation
      BY <1>3, <1>7, Constants DEF SlotsAreHeld
    <3>2. \A q \in lanes[Main].active : phase[q] = "executing" /\ q \in Runs
      BY <1>6, <3>1 DEF GlobalSlots
    <3>3. \A q \in lanes[Main].active : ph(to)[q] = "executing"
      BY <1>5, <3>2 DEF Unfinished
    <3> QED
      BY <3>1, <3>3 DEF GlobalSlots
  <2> QED
    BY <2>1, <2>2 DEF SlotsAreHeld
<1>8. CASE phase' = ph("refused") /\ UNCHANGED << lanes, generation >>
  <2>1. SlotsAreHeld(lanes, ph("refused"), session', generation)
    BY <1>7
  <2> QED
    BY <1>8, <2>1 DEF SlotIInv, SlotsAreHeld, SessionSlots, GlobalSlots
<1>9. CASE \E arrivals \in HeadOrders({s}, pushed) : Drain({s}, pushed, ph("queued"), FALSE, arrivals)
  <2>1. PICK arrivals \in HeadOrders({s}, pushed) : Drain({s}, pushed, ph("queued"), FALSE, arrivals)
    BY <1>9
  <2>2. Ready({s}, pushed, ph("queued"), session', FALSE, arrivals)
    BY <1>2, <2>1 DEF Ready
  <2>3. SlotsAreHeld(pushed, ph("queued"), session', generation)
    BY <1>4, <1>7
  <2>4. \A k \in Sessions \ {s} : Busy(pushed[k])
    BY <1>4, Constants DEF SlotIInv
  <2> QED
    BY <2>1, <2>2, <2>3, <2>4, DrainHolds
<1> QED
  BY <1>1, <1>8, <1>9

\* A task that ends leaves slots held, if no run that is over is in one afterwards.
LEMMA TaskEndHolds ==
  ASSUME IInv, SlotIInv, NEW r \in Runs, NEW end, NEW S, NEW l, NEW current \in BOOLEAN,
         TaskEnds(r, end, S, l, current), l \in S \cup {Main},
         current => SlotsAreHeld([lanes EXCEPT ![l] = Release(@, r)], Ended(phase, r, end), session, generation),
         ~current => SlotsAreHeld(lanes, Ended(phase, r, end), session, generation)
  PROVE  SlotIInv'
<1> DEFINE ended == Ended(phase, r, end)
           released == [lanes EXCEPT ![l] = Release(@, r)]
<1>1. /\ Ends(phase[r], end) /\ l \in Lanes /\ S \subseteq Sessions
      /\ \/ current /\ \E arrivals \in HeadOrders(S, released) :
                         Drain(S, released, ended, gatewayDraining, arrivals)
         \/ ~current /\ phase' = ended /\ UNCHANGED << lanes, generation >>
      /\ session' = session
  BY DEF TaskEnds
<1>2. Sound(lanes, phase, session) /\ Typed(lanes, phase, session) /\ gatewayDraining \in BOOLEAN
  BY InvariantParts DEF LoopTyped
<1>3. Sound(released, ended, session)
  <2>1. Lightened(lanes, released)
    BY <1>1, <1>2, ReleaseLightens DEF Typed
  <2>2. Sound(lanes, ended, session)
    BY <1>1, <1>2, EndKeeps
  <2> HIDE DEF released, ended
  <2> QED
    BY <2>1, <2>2, LightenedKeeps
<1>4. \A s \in Sessions \ S : Busy(released[s])
  <2>1. \A s \in Sessions \ S : s \in Lanes /\ s # l
    BY Constants
  <2>2. \A s \in Sessions \ S : released[s] = lanes[s]
    BY <1>2, <2>1 DEF Typed
  <2> QED
    BY <2>1, <2>2 DEF SlotIInv
<1>5. /\ current => SlotsAreHeld(released, ended, session, generation)
      /\ ~current => SlotsAreHeld(lanes, ended, session, generation)
  OBVIOUS
<1> HIDE DEF released, ended
<1>6. CASE ~current
  BY <1>1, <1>5, <1>6 DEF SlotIInv, SlotsAreHeld, SessionSlots, GlobalSlots
<1>7. CASE current
  <2>1. PICK arrivals \in HeadOrders(S, released) : Drain(S, released, ended, gatewayDraining, arrivals)
    BY <1>1, <1>7
  <2>2. Ready(S, released, ended, session', gatewayDraining, arrivals)
    BY <1>1, <1>2, <1>3, <2>1 DEF Ready
  <2>3. SlotsAreHeld(released, ended, session', generation)
    BY <1>1, <1>5, <1>7
  <2> QED
    BY <1>4, <2>1, <2>2, <2>3, DrainHolds
<1> QED
  BY <1>6, <1>7

\* When the work of a run ends, its slot of the global lane is free; the session slot is
\* held by a run that unwinds.
LEMMA FinishExecutionHolds ==
  ASSUME IInv, SlotIInv, NEW r \in Runs, FinishExecution(r)
  PROVE  SlotIInv'
<1> DEFINE current == generation[r].main = lanes[Main].generation
           ended == Ended(phase, r, "unwinding")
           released == [lanes EXCEPT ![Main] = Release(@, r)]
<1>1. TaskEnds(r, "unwinding", {}, Main, current) /\ phase[r] = "executing"
  <2>1. << >> \in HeadOrders({}, released)
    BY NoArrivals
  <2>2. Ends(phase[r], "unwinding") /\ phase[r] = "executing"
    BY DEF FinishExecution, Ends
  <2> QED
    BY <2>1, <2>2, Constants DEF FinishExecution, TaskEnds, Ended
<1>2. Typed(lanes, phase, session) /\ SlotsAreHeld(lanes, phase, session, generation)
  BY InvariantParts DEF SlotIInv
<1>3. \A q \in Runs : ended[q] = IF q = r THEN "unwinding" ELSE phase[q]
  BY <1>2 DEF Typed, Ended
<1>4. /\ \A l \in Lanes : released[l].generation = lanes[l].generation
      /\ \A l \in Lanes : released[l].active = IF l = Main THEN lanes[l].active \ {r} ELSE lanes[l].active
  <2>1. /\ Release(lanes[Main], r).generation = lanes[Main].generation
        /\ Release(lanes[Main], r).active = lanes[Main].active \ {r}
    BY <1>2, Constants DEF Typed, LaneState, Release
  <2> QED
    BY <1>2, <2>1, Constants DEF Typed
<1>5. \A l \in Lanes : lanes[l].active \subseteq Runs
  BY <1>2 DEF Typed, LaneState
<1> HIDE DEF ended, released
<1>6. ASSUME NEW s \in Sessions
      PROVE  /\ SessionSlots(s, lanes, ended, session, generation)
             /\ SessionSlots(s, released, ended, session, generation)
  <2>1. SessionSlots(s, lanes, phase, session, generation) /\ s \in Lanes /\ Main \in Lanes /\ s # Main
    BY <1>2, Constants DEF SlotsAreHeld
  <2>2. SessionSlots(s, lanes, ended, session, generation)
    BY <1>3, <1>5, <2>1 DEF SessionSlots, Unfinished
  <2> QED
    BY <1>4, <2>1, <2>2 DEF SessionSlots
<1>7. current => GlobalSlots(released, ended, generation)
  BY <1>2, <1>3, <1>4, <1>5, Constants DEF SlotsAreHeld, GlobalSlots
<1>8. ~current => GlobalSlots(lanes, ended, generation)
  BY <1>2, <1>3, <1>5, Constants DEF SlotsAreHeld, GlobalSlots
<1>9. /\ current => SlotsAreHeld(released, ended, session, generation)
      /\ ~current => SlotsAreHeld(lanes, ended, session, generation)
  BY <1>6, <1>7, <1>8 DEF SlotsAreHeld
<1>10. current \in BOOLEAN
  OBVIOUS
<1> HIDE DEF current
<1> QED
  BY <1>1, <1>9, <1>10, TaskEndHolds DEF ended, released

\* When its session task ends, the slot of the session is free.
LEMMA SettleHolds ==
  ASSUME IInv, SlotIInv, NEW r \in Runs, Settle(r)
  PROVE  SlotIInv'
<1> DEFINE s == session[r]
           end == IF phase[r] = "unwinding" THEN "settled" ELSE "dropped"
           current == generation[r].session = lanes[s].generation
           ended == Ended(phase, r, end)
           released == [lanes EXCEPT ![s] = Release(@, r)]
<1>1. Typed(lanes, phase, session) /\ EachIsInItsQueue(lanes, phase, session)
  BY InvariantParts DEF Sound
<1>2. /\ phase[r] \in {"unwinding", "rejecting"} /\ Ends(phase[r], end) /\ r \notin Working(phase)
  BY DEF Settle, Ends, Working
<1>3. s \in Sessions /\ s \in Lanes /\ s # Main
  BY <1>1, <1>2, Constants DEF EachIsInItsQueue
<1>4. TaskEnds(r, end, {s}, s, current)
  <2>1. [phase EXCEPT ![r] = IF @ = "unwinding" THEN "settled" ELSE "dropped"] = [phase EXCEPT ![r] = end]
    BY <1>1 DEF Typed
  <2> QED
    BY <1>2, <1>3, <2>1, Constants DEF Settle, TaskEnds, Ended
<1>5. SlotsAreHeld(lanes, phase, session, generation)
  BY DEF SlotIInv
<1>6. \A q \in Runs : q # r => ended[q] = phase[q]
  BY <1>1 DEF Typed, Ended
<1>7. /\ \A l \in Lanes : released[l].generation = lanes[l].generation
      /\ \A l \in Lanes : released[l].active = IF l = s THEN lanes[l].active \ {r} ELSE lanes[l].active
  <2>1. /\ Release(lanes[s], r).generation = lanes[s].generation
        /\ Release(lanes[s], r).active = lanes[s].active \ {r}
    BY <1>1, <1>3 DEF Typed, LaneState, Release
  <2> HIDE DEF s
  <2> QED
    BY <1>1, <1>3, <2>1 DEF Typed
<1>8. \A l \in Lanes : lanes[l].active \subseteq Runs
  BY <1>1 DEF Typed, LaneState
<1>9. r \notin lanes[Main].active
  BY <1>2, <1>5 DEF SlotsAreHeld, GlobalSlots
<1>10. ASSUME NEW k \in Sessions
       PROVE  /\ k # s \/ ~current => r \notin lanes[k].active
              /\ SessionSlots(k, lanes, phase, session, generation)
  BY <1>5 DEF SlotsAreHeld, SessionSlots
<1> HIDE DEF ended, released, current, s
<1>11. ASSUME NEW k \in Sessions
       PROVE  /\ current => SessionSlots(k, released, ended, session, generation)
              /\ ~current => SessionSlots(k, lanes, ended, session, generation)
  <2>1. k \in Lanes /\ Main \in Lanes /\ SessionSlots(k, lanes, phase, session, generation)
    BY <1>10, Constants
  <2>2. ASSUME NEW q \in lanes[k].active, q # r
        PROVE  /\ session[q] = k /\ ended[q] \in Unfinished
               /\ generation[q].session = lanes[k].generation
               /\ ended[q] = "executing" => generation[q].main = lanes[Main].generation
    BY <1>6, <1>8, <2>1, <2>2 DEF SessionSlots
  <2>3. \A q \in released[k].active : q \in lanes[k].active /\ q # r
    BY <1>7, <1>10, <2>1
  <2>4. ~current => \A q \in lanes[k].active : q # r
    BY <1>10
  <2>5. /\ released[k].generation = lanes[k].generation
        /\ released[Main].generation = lanes[Main].generation
    BY <1>7, <2>1
  <2> QED
    BY <2>2, <2>3, <2>4, <2>5 DEF SessionSlots
<1>12. GlobalSlots(released, ended, generation) /\ GlobalSlots(lanes, ended, generation)
  <2>1. \A q \in lanes[Main].active : q \in Runs /\ q # r
    BY <1>8, <1>9, Constants
  <2>2. \A q \in lanes[Main].active : ended[q] = "executing" /\ generation[q].main = lanes[Main].generation
    BY <1>5, <1>6, <2>1 DEF SlotsAreHeld, GlobalSlots
  <2>3. released[Main].generation = lanes[Main].generation /\ released[Main].active = lanes[Main].active
    BY <1>3, <1>7, Constants
  <2> QED
    BY <2>2, <2>3 DEF GlobalSlots
<1>13. /\ current => SlotsAreHeld(released, ended, session, generation)
       /\ ~current => SlotsAreHeld(lanes, ended, session, generation)
  BY <1>11, <1>12 DEF SlotsAreHeld
<1>14. current \in BOOLEAN
  BY DEF current
<1> HIDE DEF end
<1> QED
  BY <1>4, <1>13, <1>14, TaskEndHolds DEF ended, released

\* A reset forgets who holds the slots and pumps every lane.
LEMMA ResumeLoopHolds ==
  ASSUME IInv, SlotIInv, ResumeLoop
  PROVE  SlotIInv'
<1> DEFINE reset == [l \in Lanes |-> ResetLane(lanes[l])]
<1>1. \/ /\ session' = session
         /\ \E arrivals \in HeadOrders(Sessions, reset) :
              Drain(Sessions, reset, phase, FALSE, arrivals)
      \/ UNCHANGED << lanes, phase, session, generation >>
  BY DEF ResumeLoop, ResetAllLanes, laneVars
<1>2. Sound(lanes, phase, session) /\ lanes \in [Lanes -> LaneState(Runs)]
  BY InvariantParts DEF Typed
<1>3. Sound(reset, phase, session)
  <2>1. Lightened(lanes, reset)
    BY <1>2, ResetLightens
  <2> HIDE DEF reset
  <2> QED
    BY <1>2, <2>1, LightenedKeeps
<1>4. \A l \in Lanes : reset[l].active = {}
  BY <1>2, ResetLaneProper
<1> HIDE DEF reset
<1>5. CASE UNCHANGED << lanes, phase, session, generation >>
  BY <1>5 DEF SlotIInv, SlotsAreHeld, SessionSlots, GlobalSlots
<1>6. CASE /\ session' = session
           /\ \E arrivals \in HeadOrders(Sessions, reset) :
                Drain(Sessions, reset, phase, FALSE, arrivals)
  <2>1. PICK arrivals \in HeadOrders(Sessions, reset) : Drain(Sessions, reset, phase, FALSE, arrivals)
    BY <1>6
  <2>2. Ready(Sessions, reset, phase, session', FALSE, arrivals)
    BY <1>3, <1>6, <2>1 DEF Ready
  <2>3. SlotsAreHeld(reset, phase, session', generation)
    BY <1>4, Constants DEF SlotsAreHeld, SessionSlots, GlobalSlots
  <2> QED
    BY <2>1, <2>2, <2>3, DrainHolds
<1> QED
  BY <1>1, <1>5, <1>6

LEMMA NextSlots == IInv /\ SlotIInv /\ [Next]_vars => SlotIInv'
<1> SUFFICES ASSUME IInv, SlotIInv, [Next]_vars PROVE SlotIInv'
  OBVIOUS
<1>1. CASE \E r \in Runs, s \in Sessions : Submit(r, s)
  BY <1>1, SubmitHolds
<1>2. CASE \E r \in Runs : FinishExecution(r) \/ Settle(r)
  BY <1>2, FinishExecutionHolds, SettleHolds
<1>3. CASE ResumeLoop
  BY <1>3, ResumeLoopHolds
<1>4. CASE UNCHANGED << lanes, phase, session, generation >>
  BY <1>4 DEF SlotIInv, SlotsAreHeld, SessionSlots, GlobalSlots
<1>5. ReleaseLock \/ Reacquire => ResumeLoop \/ UNCHANGED << lanes, phase, session, generation >>
  BY DEF ReleaseLock, Reacquire, laneVars
<1>6. StartSucceeds \/ StartFails \/ RequestRestart \/ RequestStop \/ DrainCompletes
        \/ DrainTimesOut \/ CloseServer \/ Exit \/ UNCHANGED vars
          => UNCHANGED << lanes, phase, session, generation >>
  BY DEF StartSucceeds, StartFails, RequestRestart, RequestStop, DrainCompletes, DrainTimesOut,
         CloseServer, Exit, vars, laneVars
<1> QED
  BY <1>1, <1>2, <1>3, <1>4, <1>5, <1>6 DEF Next

\* A run that waits, in its session lane or in the global lane, never waits for others
\* that wait: some run works and frees a slot of the global lane when it ends, or some
\* session task is about to end.  The session slot a run holds while it waits for a
\* global one, and what a reset has abandoned, cannot block everyone.
THEOREM NoDeadlockOfLanes == Spec => []SomeRunCanEnd
<1>1. IInv /\ SlotIInv => SomeRunCanEnd
  <2> SUFFICES ASSUME IInv, SlotIInv, NEW r \in Runs, Waiting(r)
               PROVE  \E q \in Runs : CanEnd(q)
    BY DEF SomeRunCanEnd
  <2>1. /\ Typed(lanes, phase, session) /\ EachIsInItsQueue(lanes, phase, session)
        /\ SlotsAreHeld(lanes, phase, session, generation) /\ \A l \in Lanes : Busy(lanes[l])
    BY InvariantParts DEF Sound, SlotIInv
  <2>2. \A l \in Lanes : lanes[l].active \subseteq Runs
    BY <2>1 DEF Typed, LaneState
  <2>3. ASSUME NEW l \in Lanes, NEW q \in Queued(lanes[l])
        PROVE  lanes[l].active # {}
    <3>1. Len(lanes[l].queue) # 0
      BY <2>3 DEF Queued
    <3>2. lanes[l].queue # << >>
      BY <3>1
    <3> QED
      BY <2>1, <3>2 DEF Busy
  <2>4. ASSUME NEW p \in Runs, phase[p] = "pending"
        PROVE  \E q \in Runs : CanEnd(q)
    <3>1. p \in Queued(lanes[Main])
      BY <2>1, <2>4 DEF EachIsInItsQueue
    <3>2. PICK q \in lanes[Main].active : TRUE
      BY <2>3, <3>1, Constants
    <3>3. q \in Runs /\ CanEnd(q)
      BY <2>1, <2>2, Constants DEF SlotsAreHeld, GlobalSlots, CanEnd
    <3> QED
      BY <3>3
  <2>5. CASE phase[r] = "queued"
    <3>1. session[r] \in Sessions /\ r \in Queued(lanes[session[r]])
      BY <2>1, <2>5 DEF EachIsInItsQueue
    <3>2. PICK q \in lanes[session[r]].active : TRUE
      BY <2>3, <3>1, Constants
    <3>3. /\ q \in Runs /\ phase[q] \in Unfinished
          /\ phase[q] = "executing" => generation[q].main = lanes[Main].generation
      BY <2>1, <2>2, <3>1, Constants DEF SlotsAreHeld, SessionSlots
    <3>4. CanEnd(q) \/ phase[q] = "pending"
      BY <3>3 DEF CanEnd, Unfinished
    <3> QED
      BY <2>4, <3>3, <3>4
  <2> QED
    BY <2>4, <2>5 DEF Waiting
<1> QED
  BY <1>1, SlotInit, NextSlots, Invariant, PTL DEF Spec
=============================================================================
