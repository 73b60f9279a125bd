------------------------------ MODULE LaneOps ------------------------------
(***************************************************************************)
(* The lane of src/src/process/command-queue.ts as a data type: the record *)
(* LaneState and what the code does to one lane, as pure operators.  The   *)
(* modules CommandQueue and GatewayRuns build their actions from them.     *)
(*                                                                         *)
(* A QueueEntry is the command it carries, and so is the task id that the  *)
(* pump hands out from nextTaskId: an entry is pumped at most once, so the *)
(* entry identifies its execution.  The `draining` flag is raised by       *)
(* drainLane and lowered in a finally block before control returns to the  *)
(* event loop, so it is FALSE between any two steps of these models; it    *)
(* only makes a nested drainLane return to the while loop that is already  *)
(* running, which empties the same queue.                                  *)
(***************************************************************************)
EXTENDS Integers, Sequences, FiniteSets

LaneState(Tasks) ==
  [ queue         : Seq(Tasks),
    active        : SUBSET Tasks,
    maxConcurrent : Nat \ {0},
    generation    : Nat ]

\* Faulty variant: a lane nobody configured has no slot.
NewLaneWithoutSlot ==
  [ queue |-> << >>, active |-> {}, maxConcurrent |-> 0, generation |-> 0 ]

\* getLaneState: a lane nobody has named yet.
NewLane ==
  [ queue |-> << >>, active |-> {}, maxConcurrent |-> 1, generation |-> 0 ]

Push(ls, t) == [ls EXCEPT !.queue = Append(@, t)]

\* Faulty variant: `<=` in the condition of the while loop.
PumpCountOneTooMany(ls) ==
  LET room == ls.maxConcurrent + 1 - Cardinality(ls.active)
  IN  IF room <= 0 THEN 0
      ELSE IF room < Len(ls.queue) THEN room
      ELSE Len(ls.queue)

\* How many entries the while loop of pump takes off the queue.
PumpCount(ls) ==
  LET room == ls.maxConcurrent - Cardinality(ls.active)
  IN  IF room <= 0 THEN 0
      ELSE IF room < Len(ls.queue) THEN room
      ELSE Len(ls.queue)

\* The entries it starts: the head of the queue, oldest first.
Pumped(ls) == { ls.queue[i] : i \in 1 .. PumpCount(ls) }

Pump(ls) ==
  [ls EXCEPT !.queue  = SubSeq(@, PumpCount(ls) + 1, Len(@)),
             !.active = @ \cup Pumped(ls)]

\* completeTask, when the task belongs to the lane's current generation.
Release(ls, t) == [ls EXCEPT !.active = @ \ {t}]

Queued(ls) == { ls.queue[i] : i \in 1 .. Len(ls.queue) }

Emptied(ls) == [ls EXCEPT !.queue = << >>]

\* Faulty variant: the counters of running tasks survive the reset.
ResetLaneKeepsActive(ls) == [ls EXCEPT !.generation = @ + 1]

\* The per-lane part of resetAllLanes, before the drain pass.
ResetLane(ls) == [ls EXCEPT !.generation = @ + 1, !.active = {}]
=============================================================================
