---------------------------- MODULE CommandQueue ----------------------------
(***************************************************************************)
(* The in-process command queue of src/src/process/command-queue.ts: lanes *)
(* with a FIFO queue and a concurrency cap, the gateway drain flag, the    *)
(* reset after an in-process restart, and waitForActiveTasks.              *)
(*                                                                         *)
(* Every exported function runs to completion on the event loop, so each   *)
(* is one action, with the drainLane it ends in.  The end of a command's   *)
(* task is the one asynchronous step.  A lane is created by its first use  *)
(* with the defaults of NewLane; here all lanes exist from the start in    *)
(* that state (a lane nobody used is skipped by clear and reset, which     *)
(* would leave it as it is, except for a generation no task has seen).     *)
(***************************************************************************)
EXTENDS LaneOps

CONSTANTS
  Lanes,          \* names of lanes
  Tasks,          \* the commands callers will ever enqueue
  LaneOf,         \* the lane each of them is enqueued in
  Caps,           \* caps that setCommandLaneConcurrency is called with
  MaxResets       \* bound: how often resetAllLanes is called

ASSUME LaneOfAssumption == LaneOf \in [Tasks -> Lanes]
ASSUME BoundsAssumption == Caps \subseteq Int /\ MaxResets \in Nat

VARIABLES
  lanes,            \* queueState.lanes
  gatewayDraining,  \* queueState.gatewayDraining
  phase,            \* the promise of each command, and whether its task runs
  taskGeneration,   \* generation of the lane when the task was started
  enqueuedAt,       \* arrival number of an accepted command (Date.now() in the code)
  now,              \* the last arrival number given
  resets,           \* calls of resetAllLanes so far
  waiter            \* one call of waitForActiveTasks

vars == << lanes, gatewayDraining, phase, taskGeneration, enqueuedAt, now, resets, waiter >>

Phases == {"idle", "refused", "queued", "cleared", "running", "resolved", "rejected"}
Finished == {"resolved", "rejected"}

TypeOK ==
  /\ lanes \in [Lanes -> LaneState(Tasks)]
  /\ gatewayDraining \in BOOLEAN
  /\ phase \in [Tasks -> Phases]
  /\ taskGeneration \in [Tasks -> Nat]
  /\ enqueuedAt \in [Tasks -> Nat]
  /\ now \in Nat
  /\ resets \in Nat
  /\ waiter \in [ state : {"none", "polling", "drained", "timedOut"},
                  activeAtStart : SUBSET Tasks ]

Init ==
  /\ lanes = [l \in Lanes |-> NewLane]
  /\ gatewayDraining = FALSE
  /\ phase = [t \in Tasks |-> "idle"]
  /\ taskGeneration = [t \in Tasks |-> 0]
  /\ enqueuedAt = [t \in Tasks |-> 0]
  /\ now = 0
  /\ resets = 0
  /\ waiter = [state |-> "none", activeAtStart |-> {}]

-----------------------------------------------------------------------------
\* The commands drainLane starts when the lanes in L are in the states ls.
StartedIn(L, ls) == UNION { Pumped(ls[l]) : l \in L }

\* drainLane on every lane of L, where ls and ph are the lanes and the phases
\* that the caller of drainLane has left behind.
DrainLanes(L, ls, ph) ==
  /\ lanes' = [l \in Lanes |-> IF l \in L THEN Pump(ls[l]) ELSE ls[l]]
  /\ phase' = [t \in Tasks |-> IF t \in StartedIn(L, ls) THEN "running" ELSE ph[t]]
  /\ taskGeneration' = [t \in Tasks |-> IF t \in StartedIn(L, ls)
                                        THEN ls[LaneOf[t]].generation
                                        ELSE taskGeneration[t]]

\* enqueueCommandInLane while the gateway drains for a restart.
Refuse(t) ==
  /\ phase[t] = "idle"
  /\ gatewayDraining
  /\ phase' = [phase EXCEPT ![t] = "refused"]
  /\ UNCHANGED << lanes, gatewayDraining, taskGeneration, enqueuedAt, now, resets, waiter >>

\* enqueueCommandInLane.
Enqueue(t) ==
  LET l == LaneOf[t]
  IN
  /\ phase[t] = "idle"
  /\ ~gatewayDraining
  /\ now' = now + 1
  /\ enqueuedAt' = [enqueuedAt EXCEPT ![t] = now + 1]
  /\ DrainLanes({l}, [lanes EXCEPT ![l] = Push(@, t)], [phase EXCEPT ![t] = "queued"])
  /\ UNCHANGED << gatewayDraining, resets, waiter >>

\* Faulty variant: the catch block forgets to pump.
FinishPumpsOnSuccess(t, outcome) ==
  LET l == LaneOf[t]
  IN
  /\ phase[t] = "running"
  /\ lanes' = IF taskGeneration[t] = lanes[l].generation
              THEN [lanes EXCEPT ![l] = IF outcome = "resolved" THEN Pump(Release(@, t))
                                                                ELSE Release(@, t)]
              ELSE lanes
  /\ phase' = [u \in Tasks |->
                 CASE u = t -> outcome
                   [] u \in lanes'[l].active -> "running"
                   [] OTHER -> phase[u]]
  /\ taskGeneration' = [u \in Tasks |->
                          IF u \in lanes'[l].active THEN lanes[l].generation
                                                    ELSE taskGeneration[u]]
  /\ UNCHANGED << gatewayDraining, enqueuedAt, now, resets, waiter >>

\* The continuation after `await entry.task()`: completeTask compares the
\* generations, and only a task of the current one frees its slot and pumps.
Finish(t, outcome) ==
  LET l == LaneOf[t]
      settled == [phase EXCEPT ![t] = outcome]
  IN
  /\ phase[t] = "running"
  /\ IF taskGeneration[t] = lanes[l].generation
     THEN DrainLanes({l}, [lanes EXCEPT ![l] = Release(@, t)], settled)
     ELSE /\ phase' = settled
          /\ UNCHANGED << lanes, taskGeneration >>
  /\ UNCHANGED << gatewayDraining, enqueuedAt, now, resets, waiter >>

\* setCommandLaneConcurrency; a configured cap below 1 counts as 1.
SetConcurrency(l, cap) ==
  /\ DrainLanes({l}, [lanes EXCEPT ![l].maxConcurrent = IF cap < 1 THEN 1 ELSE cap], phase)
  /\ UNCHANGED << gatewayDraining, enqueuedAt, now, resets, waiter >>

\* Faulty variant: the entries are rejected where they stand.
ClearInPlace(l) ==
  /\ lanes[l].queue # << >>
  /\ phase' = [t \in Tasks |-> IF t \in Queued(lanes[l]) THEN "cleared" ELSE phase[t]]
  /\ UNCHANGED << lanes, gatewayDraining, taskGeneration, enqueuedAt, now, resets, waiter >>

\* clearCommandLane: the queued entries are rejected, the running ones stay.
Clear(l) ==
  /\ lanes[l].queue # << >>
  /\ lanes' = [lanes EXCEPT ![l] = Emptied(@)]
  /\ phase' = [t \in Tasks |-> IF t \in Queued(lanes[l]) THEN "cleared" ELSE phase[t]]
  /\ UNCHANGED << gatewayDraining, taskGeneration, enqueuedAt, now, resets, waiter >>

MarkDraining ==
  /\ ~gatewayDraining
  /\ gatewayDraining' = TRUE
  /\ UNCHANGED << lanes, phase, taskGeneration, enqueuedAt, now, resets, waiter >>

\* resetAllLanes: every lane forgets its running tasks, then those with
\* queued entries are drained.
ResetAll ==
  LET ls == [l \in Lanes |-> ResetLane(lanes[l])]
  IN
  /\ resets < MaxResets
  /\ resets' = resets + 1
  /\ gatewayDraining' = FALSE
  /\ DrainLanes({l \in Lanes : lanes[l].queue # << >>}, ls, phase)
  /\ UNCHANGED << enqueuedAt, now, waiter >>

-----------------------------------------------------------------------------
\* waitForActiveTasks.
ActiveTasks == UNION { lanes[l].active : l \in Lanes }

\* The call: it takes the snapshot and checks at once; a zero timeout is over
\* by then.
WaitForActiveTasks ==
  /\ waiter.state = "none"
  /\ \E s \in {"drained", "polling", "timedOut"} :
       /\ s = "drained" <=> ActiveTasks = {}
       /\ waiter' = [state |-> s, activeAtStart |-> ActiveTasks]
  /\ UNCHANGED << lanes, gatewayDraining, phase, taskGeneration, enqueuedAt, now, resets >>

\* Faulty variant: the deadline ends the wait as a success.
PollReportsDrained ==
  /\ waiter.state = "polling"
  /\ waiter' = [waiter EXCEPT !.state = "drained"]
  /\ UNCHANGED << lanes, gatewayDraining, phase, taskGeneration, enqueuedAt, now, resets >>

\* A later check, when the timer fires: drained, or past the deadline.
Poll ==
  /\ waiter.state = "polling"
  /\ IF waiter.activeAtStart \cap ActiveTasks = {}
     THEN waiter' = [waiter EXCEPT !.state = "drained"]
     ELSE waiter' = [waiter EXCEPT !.state = "timedOut"]
  /\ UNCHANGED << lanes, gatewayDraining, phase, taskGeneration, enqueuedAt, now, resets >>

-----------------------------------------------------------------------------
Next ==
  \/ \E t \in Tasks : Enqueue(t) \/ Refuse(t)
  \/ \E t \in Tasks, outcome \in Finished : Finish(t, outcome)
  \/ \E l \in Lanes : Clear(l)
  \/ \E l \in Lanes, cap \in Caps : SetConcurrency(l, cap)
  \/ MarkDraining
  \/ ResetAll
  \/ WaitForActiveTasks
  \/ Poll

Spec == Init /\ [][Next]_vars

-----------------------------------------------------------------------------
\* A slot is held by exactly the tasks of the current generation that still
\* run: no finished task keeps one (a leaked slot blocks the lane for good)
\* and no stale completion frees one that belongs to a newer task.
SlotsAreExact ==
  \A l \in Lanes :
    lanes[l].active = { t \in Tasks : /\ LaneOf[t] = l
                                      /\ phase[t] = "running"
                                      /\ taskGeneration[t] = lanes[l].generation }

\* No lost wakeup: between two steps of the event loop a lane never has a
\* waiting command and a free slot, whatever mix of completions, clears,
\* resets and reconfigurations came before (drainLane's early return on
\* `draining` and the pump calls in the continuations are what could break it).
NoLostWakeup ==
  \A l \in Lanes :
    lanes[l].queue # << >> => Cardinality(lanes[l].active) >= lanes[l].maxConcurrent

\* First come, first started: of two accepted commands of a lane, the later
\* one is not started while the earlier one still waits, across resets too.
FifoStart ==
  \A t, u \in Tasks :
    /\ LaneOf[t] = LaneOf[u]
    /\ phase[t] \in {"running"} \cup Finished
    /\ phase[u] = "queued"
    => enqueuedAt[t] < enqueuedAt[u]

\* A waiter that reports `drained` told the truth: each task of its snapshot
\* has finished, or was abandoned by a reset of its lane.
DrainedIsTrue ==
  waiter.state = "drained" =>
    \A t \in waiter.activeAtStart :
      phase[t] \in Finished \/ taskGeneration[t] < lanes[LaneOf[t]].generation

\* Starting work never exceeds the cap in force: a step that starts a command
\* leaves the lane with at most maxConcurrent tasks of its generation, even
\* when the cap was lowered below what is already running.
StartsWithinCap ==
  [][\A l \in Lanes :
       (\E t \in Tasks : LaneOf[t] = l /\ phase[t] # "running" /\ phase'[t] = "running")
         => Cardinality(lanes'[l].active) <= lanes'[l].maxConcurrent]_vars

\* The detailed queue implements the life a caller is promised.
Lifecycle == INSTANCE CommandLifecycle
LifecycleSpec == Lifecycle!LifecycleSpec
=============================================================================
