-------------------------- MODULE CommandLifecycle --------------------------
(***************************************************************************)
(* What enqueueCommandInLane promises its caller, without lanes' counters, *)
(* generations or pumps: a command is refused, or accepted with a place in *)
(* the arrival order; an accepted command waits, then runs or is cleared;  *)
(* a command that ran settles once; and in a lane nobody is overtaken.     *)
(* CommandQueue is shown to implement this specification.                  *)
(***************************************************************************)
EXTENDS Integers

CONSTANTS Tasks, LaneOf

VARIABLES
  phase,       \* where each command is in its life
  enqueuedAt   \* its arrival number, 0 before it is accepted

lifecycleVars == << phase, enqueuedAt >>

LifecycleInit ==
  /\ phase = [t \in Tasks |-> "idle"]
  /\ enqueuedAt = [t \in Tasks |-> 0]

\* The edges of a command's life.
MayBecome(from, to) ==
  \/ from = to
  \/ from = "idle"    /\ to \in {"queued", "running", "refused"}
  \/ from = "queued"  /\ to \in {"running", "cleared"}
  \/ from = "running" /\ to \in {"resolved", "rejected"}

Accepted(t) == enqueuedAt[t] # 0

\* A command is numbered when it is accepted, after every number given before.
NumbersArrival(t) ==
  \/ enqueuedAt'[t] = enqueuedAt[t]
  \/ /\ phase[t] = "idle" /\ phase'[t] \in {"queued", "running"}
     /\ \A u \in Tasks : enqueuedAt[u] < enqueuedAt'[t]

Starts(t) == phase[t] # "running" /\ phase'[t] = "running"

\* A command that starts leaves no earlier arrival of its lane waiting.
OvertakesNobody(t) ==
  \A u \in Tasks :
    /\ LaneOf[u] = LaneOf[t]
    /\ Accepted(u)
    /\ enqueuedAt[u] < enqueuedAt'[t]
    => phase'[u] # "queued"

LifecycleNext ==
  \A t \in Tasks :
    /\ MayBecome(phase[t], phase'[t])
    /\ NumbersArrival(t)
    /\ Starts(t) => OvertakesNobody(t)

LifecycleSpec == LifecycleInit /\ [][LifecycleNext]_lifecycleVars
=============================================================================
