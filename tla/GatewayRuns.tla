---------------------------- MODULE GatewayRuns ----------------------------
(***************************************************************************)
(* Agent runs on the command queue, across in-process restarts of the      *)
(* gateway.  The module composes                                           *)
(*   - runEmbeddedPiAgent, which enqueues a command in the lane of its     *)
(*     session whose task enqueues the real work in a global lane and      *)
(*     awaits it (agents/pi-embedded-runner/run.ts, lanes.ts);             *)
(*   - the lanes of process/command-queue.ts (module LaneOps);             *)
(*   - runGatewayLoop, which starts the server, drains and closes it on a  *)
(*     restart signal and starts it again (cli/gateway-cli/run-loop.ts).   *)
(*                                                                         *)
(* Run k is the k-th one that is accepted, so its number is its place in   *)
(* the arrival order.  One action is what happens up to the next `await`.  *)
(***************************************************************************)
EXTENDS LaneOps, SequencesExt

CONSTANTS
  Sessions,    \* session keys; each is the name of a lane too
  Main,        \* the global lane
  NumRuns,     \* bound: runs ever requested
  MainCap,     \* agents.defaults.maxConcurrent
  MaxSignals   \* bound: restart and stop signals

ASSUME ConstantsAssumption ==
  /\ Main \notin Sessions
  /\ NumRuns \in Nat /\ MaxSignals \in Nat
  /\ MainCap \in Nat \ {0}

VARIABLES
  lanes,            \* queueState.lanes; an entry is the run it belongs to
  gatewayDraining,  \* queueState.gatewayDraining
  phase,            \* how far each run has come
  session,          \* the session key it was submitted with
  generation,       \* generations its two tasks were started in
  loop,             \* the while loop: inside params.start(), or on its promise
  server,           \* what the variable `server` holds
  listening,        \* whether a started server has not been closed
  shutdown,         \* how far the handler of the last signal has come
  drain,            \* what it waits for
  lock,             \* whether `lock` is held
  alive,            \* FALSE once the process has exited
  restarted,        \* the negation of isFirstStart
  signals,          \* signals received so far
  timedOut,         \* history: some drain hit DRAIN_TIMEOUT_MS
  missed            \* history: the last restart found no promise to resolve

laneVars == << lanes, gatewayDraining, phase, session, generation >>
loopVars == << loop, server, listening, shutdown, drain, lock, alive, restarted, signals, timedOut, missed >>
vars == << laneVars, loopVars >>

Runs == 1 .. NumRuns
Lanes == Sessions \cup {Main}

Phases ==
  { "idle",
    "refused",     \* turned away by enqueueCommandInLane
    "queued",      \* its entry waits in the session lane
    "pending",     \* its session task has started and waits in the global lane
    "executing",   \* the agent works
    "unwinding",   \* the global task is over, the session task not yet
    "rejecting",   \* the global lane refused it, the session task not over yet
    "settled",
    "dropped" }    \* accepted, and rejected without having run

Waiting(r) == phase[r] \in {"queued", "pending"}

TypeOK ==
  /\ lanes \in [Lanes -> LaneState(Runs)]
  /\ gatewayDraining \in BOOLEAN
  /\ phase \in [Runs -> Phases]
  /\ session \in [Runs -> Sessions \cup {Main}]
  /\ generation \in [Runs -> [session : Nat, main : Nat]]
  /\ loop \in {"starting", "waiting"}
  /\ server \in {"none", "up"}
  /\ listening \in BOOLEAN
  /\ shutdown \in {"no", "draining", "closing", "releasing", "relocking", "stopping"}
  /\ drain \in [tasks : SUBSET Runs, runs : BOOLEAN]
  /\ lock \in BOOLEAN /\ alive \in BOOLEAN /\ restarted \in BOOLEAN
  /\ timedOut \in BOOLEAN /\ missed \in BOOLEAN
  /\ signals \in 0 .. MaxSignals

NoDrain == [tasks |-> {}, runs |-> FALSE]

\* The process holds its lock and runs the first params.start(), which has
\* set the concurrency of the global lane.
Init ==
  /\ lanes = [l \in Lanes |-> IF l = Main THEN [NewLane EXCEPT !.maxConcurrent = MainCap]
                                          ELSE NewLane]
  /\ gatewayDraining = FALSE
  /\ phase = [r \in Runs |-> "idle"]
  /\ session = [r \in Runs |-> Main]
  /\ generation = [r \in Runs |-> [session |-> 0, main |-> 0]]
  /\ loop = "starting" /\ server = "none" /\ listening = FALSE
  /\ shutdown = "no" /\ drain = NoDrain
  /\ lock = TRUE /\ alive = TRUE /\ restarted = FALSE
  /\ signals = 0 /\ timedOut = FALSE /\ missed = FALSE

-----------------------------------------------------------------------------
(* Runs on the lanes.                                                      *)

\* drainLane on the session lanes in S and on the global lane, when the caller
\* has left the lanes in ls and the phases in ph.  A session task that starts
\* enqueues in the global lane at once; while the gateway drains that enqueue
\* is refused.  Where several session lanes are drained in one pass, `arrivals`
\* is the order in which their heads reach the global lane.
Drain(S, ls, ph, draining, arrivals) ==
  LET heads == UNION { Pumped(ls[s]) : s \in S }
      global == IF draining THEN ls[Main]
                ELSE [ls[Main] EXCEPT !.queue = @ \o arrivals]
      executing == Pumped(global)
  IN
  /\ lanes' = [l \in Lanes |-> CASE l = Main -> Pump(global)
                                 [] l \in S -> Pump(ls[l])
                                 [] OTHER -> ls[l]]
  /\ phase' = [r \in Runs |->
                 CASE r \in executing -> "executing"
                   [] r \in heads \ executing -> IF draining THEN "rejecting" ELSE "pending"
                   [] OTHER -> ph[r]]
  /\ generation' = [r \in Runs |->
       [ session |-> IF r \in heads THEN ls[session'[r]].generation ELSE generation[r].session,
         main |-> IF r \in executing THEN ls[Main].generation ELSE generation[r].main ]]

\* The orders in which the heads of the session lanes of S can be started.
HeadOrders(S, ls) == SetToSeqs(UNION { Pumped(ls[s]) : s \in S })

\* runEmbeddedPiAgent for session s: the next number, accepted or refused.
Submit(r, s) ==
  /\ alive
  /\ phase[r] = "idle"
  /\ \A q \in Runs : q < r => phase[q] # "idle"
  /\ session' = [session EXCEPT ![r] = s]
  /\ IF gatewayDraining
     THEN /\ phase' = [phase EXCEPT ![r] = "refused"]
          /\ UNCHANGED << lanes, generation >>
     ELSE LET ls == [lanes EXCEPT ![s] = Push(@, r)]
          IN  \E arrivals \in HeadOrders({s}, ls) :
                Drain({s}, ls, [phase EXCEPT ![r] = "queued"], FALSE, arrivals)
  /\ UNCHANGED << gatewayDraining, loopVars >>

\* The agent's work ends, one way or the other: completeTask on the global
\* lane; the session task goes on in a later microtask.
FinishExecution(r) ==
  LET ended == [phase EXCEPT ![r] = "unwinding"]
  IN
  /\ alive
  /\ UNCHANGED << gatewayDraining, session, loopVars >>
  /\ phase[r] = "executing"
  /\ IF generation[r].main = lanes[Main].generation
     THEN Drain({}, [lanes EXCEPT ![Main] = Release(@, r)], ended, gatewayDraining, << >>)
     ELSE phase' = ended /\ UNCHANGED << lanes, generation >>

\* The session task ends: completeTask on the session lane.
Settle(r) ==
  LET s == session[r]
      ended == [phase EXCEPT ![r] = IF @ = "unwinding" THEN "settled" ELSE "dropped"]
      ls == [lanes EXCEPT ![s] = Release(@, r)]
  IN
  /\ alive
  /\ UNCHANGED << gatewayDraining, session, loopVars >>
  /\ phase[r] \in {"unwinding", "rejecting"}
  /\ IF generation[r].session = lanes[s].generation
     THEN \E arrivals \in HeadOrders({s}, ls) : Drain({s}, ls, ended, gatewayDraining, arrivals)
     ELSE phase' = ended /\ UNCHANGED << lanes, generation >>

\* Faulty variant: the reset does not pump what it preserved.
ResetAllLanesQuietly ==
  /\ gatewayDraining' = FALSE
  /\ lanes' = [l \in Lanes |-> ResetLane(lanes[l])]
  /\ UNCHANGED << phase, session, generation >>

\* Faulty variant: newest preserved session entries are drained first.
ResetAllLanesReversed ==
  LET ls == [l \in Lanes |-> [ResetLane(lanes[l]) EXCEPT !.queue = Reverse(@)]]
  IN
  /\ gatewayDraining' = FALSE
  /\ session' = session
  /\ \E arrivals \in HeadOrders(Sessions, ls) : Drain(Sessions, ls, phase, FALSE, arrivals)

\* Faulty variant: the reset leaves the gateway marked as draining.
ResetAllLanesDraining ==
  LET ls == [l \in Lanes |-> ResetLane(lanes[l])]
  IN
  /\ gatewayDraining' = gatewayDraining
  /\ session' = session
  /\ \E arrivals \in HeadOrders(Sessions, ls) : Drain(Sessions, ls, phase, FALSE, arrivals)

\* resetAllLanes, as the iteration hook of the loop calls it.
ResetAllLanes ==
  LET ls == [l \in Lanes |-> ResetLane(lanes[l])]
  IN
  /\ gatewayDraining' = FALSE
  /\ session' = session
  /\ \E arrivals \in HeadOrders(Sessions, ls) : Drain(Sessions, ls, phase, FALSE, arrivals)

-----------------------------------------------------------------------------
(* The gateway loop.                                                       *)

Executing == { r \in Runs : phase[r] = "executing" }
ActiveTasks == UNION { lanes[l].active : l \in Lanes }

\* await params.start() returns a server, which it cannot while a server of an
\* earlier iteration still has the port; the loop waits on a new promise.
StartSucceeds ==
  /\ alive /\ loop = "starting" /\ ~listening
  /\ loop' = "waiting" /\ server' = "up" /\ listening' = TRUE /\ restarted' = TRUE
  /\ UNCHANGED << laneVars, shutdown, drain, lock, alive, signals, timedOut, missed >>

\* It throws: fatal the first time; later the process stays, without its lock.
StartFails ==
  /\ alive /\ loop = "starting"
  /\ lock' = FALSE /\ server' = "none"
  /\ IF restarted THEN loop' = "waiting" /\ alive' = TRUE
                  ELSE loop' = loop /\ alive' = FALSE
  /\ UNCHANGED << laneVars, listening, shutdown, drain, restarted, signals, timedOut, missed >>

\* Faulty variant: the handler waits for what the global lane runs now.
RequestRestartGlobalOnly ==
  /\ alive /\ shutdown = "no" /\ signals < MaxSignals
  /\ signals' = signals + 1
  /\ gatewayDraining' = TRUE
  /\ drain' = [tasks |-> lanes[Main].active, runs |-> FALSE]
  /\ shutdown' = IF lanes[Main].active = {} THEN "closing" ELSE "draining"
  /\ UNCHANGED << lanes, phase, session, generation,
                  loop, server, listening, lock, alive, restarted, timedOut, missed >>

\* request("restart"): new enqueues are refused from now on, and the handler
\* waits for the work it finds, if any.
RequestRestart ==
  /\ alive /\ shutdown = "no" /\ signals < MaxSignals
  /\ signals' = signals + 1
  /\ gatewayDraining' = TRUE
  /\ drain' = [tasks |-> ActiveTasks, runs |-> Executing # {}]
  /\ shutdown' = IF ActiveTasks = {} /\ Executing = {} THEN "closing" ELSE "draining"
  /\ UNCHANGED << lanes, phase, session, generation,
                  loop, server, listening, lock, alive, restarted, timedOut, missed >>

\* waitForActiveTasks and waitForActiveEmbeddedRuns both report drained.
DrainCompletes ==
  /\ alive /\ shutdown = "draining"
  /\ drain.tasks \cap ActiveTasks = {}
  /\ drain.runs => Executing = {}
  /\ shutdown' = "closing" /\ drain' = NoDrain
  /\ UNCHANGED << laneVars, loop, server, listening, lock, alive, restarted, signals, timedOut, missed >>

\* One of them does not within 90 s: the runs that execute are asked to abort
\* (they end with FinishExecution, when they do) and the restart goes on.
DrainTimesOut ==
  /\ alive /\ shutdown = "draining"
  /\ ~(drain.tasks \cap ActiveTasks = {} /\ (drain.runs => Executing = {}))
  /\ shutdown' = "closing" /\ drain' = NoDrain /\ timedOut' = TRUE
  /\ UNCHANGED << laneVars, loop, server, listening, lock, alive, restarted, signals, missed >>

\* await server?.close(), or its failure; closes what `server` holds by now.
CloseServer ==
  /\ alive /\ shutdown = "closing"
  /\ shutdown' = "releasing"
  /\ listening' = IF server = "up" THEN FALSE ELSE listening
  /\ server' = "none"
  /\ UNCHANGED << laneVars, loop, drain, lock, alive, restarted, signals, timedOut, missed >>

\* The loop goes round: onIteration, then params.start() again.  This is the
\* continuation of restartResolver, which exists only while the loop waits.
ResumeLoop ==
  /\ shutdown' = "no"
  /\ missed' = (loop = "starting")
  /\ IF loop = "waiting"
     THEN loop' = "starting" /\ ResetAllLanes
     ELSE UNCHANGED << loop, laneVars >>

\* The lock is released and the process is not replaced: it takes the lock
\* again if it had one.
ReleaseLock ==
  /\ alive /\ shutdown = "releasing"
  /\ lock' = FALSE
  /\ IF lock THEN shutdown' = "relocking" /\ UNCHANGED << loop, laneVars, missed >>
             ELSE ResumeLoop
  /\ UNCHANGED << server, listening, drain, alive, restarted, signals, timedOut >>

Reacquire ==
  /\ alive /\ shutdown = "relocking"
  /\ lock' = TRUE
  /\ ResumeLoop
  /\ UNCHANGED << server, listening, drain, alive, restarted, signals, timedOut >>

\* request("stop"): close and exit, without a drain.
RequestStop ==
  /\ alive /\ shutdown = "no" /\ signals < MaxSignals
  /\ signals' = signals + 1
  /\ shutdown' = "stopping"
  /\ UNCHANGED << laneVars, loop, server, listening, drain, lock, alive, restarted, timedOut, missed >>

\* The process exits: stopped; its close hit the force-exit timer; replaced by
\* a fresh process; or another process took the lock.
Exit ==
  /\ alive /\ shutdown \in {"stopping", "closing", "releasing", "relocking"}
  /\ alive' = FALSE /\ lock' = FALSE /\ listening' = FALSE
  /\ UNCHANGED << laneVars, loop, server, shutdown, drain, restarted, signals, timedOut, missed >>

-----------------------------------------------------------------------------
Next ==
  \/ \E r \in Runs, s \in Sessions : Submit(r, s)
  \/ \E r \in Runs : FinishExecution(r) \/ Settle(r)
  \/ StartSucceeds \/ StartFails
  \/ RequestRestart \/ RequestStop
  \/ DrainCompletes \/ DrainTimesOut
  \/ CloseServer \/ ReleaseLock \/ Reacquire
  \/ Exit

Spec == Init /\ [][Next]_vars

\* A run that holds a slot ends (agents run under a timeout); one that a reset
\* has abandoned need not.  Continuations of settled promises are executed.
\* Every run ends once, so fairness to all of them together is fairness to each.
Fairness ==
  /\ WF_vars(\E r \in Runs : generation[r].main = lanes[Main].generation /\ FinishExecution(r))
  /\ WF_vars(\E r \in Runs : Settle(r))

FairSpec == Spec /\ Fairness

-----------------------------------------------------------------------------
\* The runs of a session start in the order they were accepted, although each
\* passes two queues and a reset may find it in either.
SessionOrder ==
  \A r, q \in Runs :
    /\ r < q
    /\ session[r] = session[q]
    /\ phase[q] \in {"executing", "unwinding", "settled"}
    => ~Waiting(r)

\* At most one run works on a session at a time, as long as no drain has hit
\* its timeout: what the reset of a restart forgets has ended.
OneRunPerSessionIfDrained ==
  ~timedOut => \A r, q \in Executing : session[r] = session[q] => r = q

\* A gateway that serves, with no restart under way, accepts work, unless the
\* last restart was signalled while params.start() had not returned: it set the
\* drain flag, found no promise to resolve, and nothing resets the flag.
ServingGatewayAccepts ==
  alive /\ listening /\ loop = "waiting" /\ shutdown = "no" => ~gatewayDraining \/ missed

\* No accepted run waits for ever, in a lane of either kind: it gets to work,
\* is rejected, or the process exits.  The session slot it may hold while it
\* waits for a global one cannot block it.
WaitingRunMoves == \A r \in Runs : Waiting(r) ~> (~Waiting(r) \/ ~alive)
=============================================================================
