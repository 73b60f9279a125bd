------------------------ MODULE RestartCoordination ------------------------
(***************************************************************************)
(* From a request for a gateway restart to the restart: the scheduled      *)
(* restart of the RPC path and the deferral polls (infra/restart.ts), the  *)
(* config watcher's own path (gateway/server-reload-handlers.ts), and the  *)
(* run loop that takes the signal (cli/gateway-cli/run-loop.ts).           *)
(*                                                                         *)
(* process.emit runs the loop's handler before emitGatewayRestart returns: *)
(* the authorization and the cycle token of a signal are consumed in the   *)
(* step that sets them, so neither is part of the state.  Delays, the      *)
(* cooldown among them, only say when a timer fires; a request that pulls  *)
(* the timer forward and one that is coalesced leave the same timer.       *)
(***************************************************************************)
EXTENDS Naturals

CONSTANTS
  AllowExternal, \* commands.restart: whether a SIGUSR1 from outside is obeyed
  MaxRequests,   \* bound: requests for a restart
  MaxWork        \* bound: operations at a time

ASSUME RestartConstants ==
  AllowExternal \in BOOLEAN /\ MaxRequests \in Nat /\ MaxWork \in Nat

VARIABLES
  work,           \* getTotalQueueSize + getTotalPendingReplies + getActiveEmbeddedRunCount
  timer,          \* pendingRestartTimer is set
  polls,          \* deferral polls: those of the timer's path, of the watcher's path of
                  \* the running server, of the watcher's path of a server now closed
  restartPending, \* restartPending of the running server's reload handlers
  loop,           \* the run loop: inside params.start(), or waiting on its promise
                  \* beside a server that serves or after a start that failed
  shuttingDown,   \* shuttingDown, and how far the handler has come
  requests,       \* requests so far
  outstanding,    \* history: no server has been started since the last request
  leftover,       \* history: a restart began while a poll for an earlier request went
                  \* on or, on a signal from outside, while the timer was set; or the
                  \* timer was set during a shutdown
  swallowed       \* history: a restart came in while the server was starting, and
                  \* the loop had no promise for it to resolve

deferral == << timer, polls, restartPending >>
restartVars == << work, deferral, loop, shuttingDown, requests, outstanding, leftover, swallowed >>

Paths == {"timer", "watcher", "former"}

RestartTypeOK ==
  /\ work \in 0 .. MaxWork
  /\ timer \in BOOLEAN /\ restartPending \in BOOLEAN
  /\ polls \in [Paths -> 0 .. MaxRequests]
  /\ loop \in {"starting", "serving", "failed", "exited"}
  /\ shuttingDown \in {"no", "draining", "closing"}
  /\ requests \in 0 .. MaxRequests
  /\ outstanding \in BOOLEAN /\ leftover \in BOOLEAN /\ swallowed \in BOOLEAN

RestartInit ==
  /\ work = 0
  /\ timer = FALSE /\ polls = [p \in Paths |-> 0] /\ restartPending = FALSE
  /\ loop = "serving" /\ shuttingDown = "no"
  /\ requests = 0 /\ outstanding = FALSE /\ leftover = FALSE /\ swallowed = FALSE

Polling(ps) == \E p \in Paths : ps[p] > 0

\* Polls and timers live on in a process whatever its loop does.
Alive == loop # "exited"

-----------------------------------------------------------------------------
(* Work comes and goes; a draining gateway takes none.                     *)

Begin ==
  /\ Alive /\ shuttingDown = "no" /\ work < MaxWork
  /\ work' = work + 1
  /\ UNCHANGED << deferral, loop, shuttingDown, requests, outstanding, leftover, swallowed >>

End ==
  /\ Alive /\ work > 0
  /\ work' = work - 1
  /\ UNCHANGED << deferral, loop, shuttingDown, requests, outstanding, leftover, swallowed >>

-----------------------------------------------------------------------------
(* The signal and the deferral.                                            *)

\* request("restart"): ignored during a shutdown.
Signal(armed) ==
  /\ shuttingDown' = IF shuttingDown = "no" THEN "draining" ELSE shuttingDown
  /\ leftover' = (leftover \/ (shuttingDown = "no" /\ armed))

\* Faulty variant: the timer of an earlier request is left to fire.
EmitKeepingTimer(ps) == timer' \in {timer, FALSE} /\ Signal(Polling(ps))

\* emitGatewayRestart clears the timer, whoever has set it, and leaves the polls.
Emit(ps) ==
  timer' = FALSE /\ Signal(Polling(ps))

\* deferGatewayRestartUntilIdle: a restart now, or a poll for the path.
Defer(path) ==
  IF work = 0
  THEN Emit(polls) /\ UNCHANGED polls
  ELSE /\ polls' = [polls EXCEPT ![path] = @ + 1]
       /\ leftover' = (leftover \/ shuttingDown # "no")
       /\ UNCHANGED shuttingDown

Request == Alive /\ requests < MaxRequests /\ requests' = requests + 1 /\ outstanding' = TRUE

\* scheduleGatewaySigusr1Restart, from an RPC, a tool or the /restart command.
Schedule ==
  /\ Request
  /\ timer' = TRUE
  /\ leftover' = (leftover \/ shuttingDown # "no")
  /\ UNCHANGED << work, polls, restartPending, loop, shuttingDown, swallowed >>

TimerFires ==
  /\ Alive /\ timer
  /\ Defer("timer") /\ timer' = FALSE
  /\ UNCHANGED << work, restartPending, loop, requests, outstanding, swallowed >>

\* requestGatewayRestart of the running server's handlers: no second poll.  The
\* watcher is alive until the server is closed.
ConfigChanged ==
  /\ Request /\ loop = "serving" /\ shuttingDown # "closing"
  /\ IF work > 0 /\ restartPending
     THEN UNCHANGED << deferral, shuttingDown, leftover >>
     ELSE /\ restartPending' = (restartPending \/ work > 0)
          /\ Defer("watcher")
          /\ work > 0 => UNCHANGED timer
  /\ UNCHANGED << work, loop, swallowed >>

\* kill -USR1 by an operator or another process.
ExternalSignal ==
  /\ AllowExternal /\ Request /\ Signal(timer \/ Polling(polls))
  /\ UNCHANGED << work, deferral, loop, swallowed >>

\* Faulty variant: after 90 s the poll gives up.
PollEndsGivingUp(path) ==
  /\ Alive /\ polls[path] > 0
  /\ polls' = [polls EXCEPT ![path] = @ - 1]
  /\ restartPending' = IF path = "watcher" THEN FALSE ELSE restartPending
  /\ IF work = 0 THEN Emit(polls') ELSE UNCHANGED << timer, shuttingDown, leftover >>
  /\ UNCHANGED << work, loop, requests, outstanding, swallowed >>

\* A poll finds the gateway idle, or has waited for 90 s.
PollEnds(path) ==
  /\ Alive /\ polls[path] > 0
  /\ polls' = [polls EXCEPT ![path] = @ - 1]
  /\ restartPending' = IF path = "watcher" THEN FALSE ELSE restartPending
  /\ Emit(polls')
  /\ UNCHANGED << work, loop, requests, outstanding, swallowed >>

-----------------------------------------------------------------------------
(* The run loop.                                                           *)

\* The drain is over or has timed out.
Drained ==
  /\ Alive /\ shuttingDown = "draining"
  /\ shuttingDown' = "closing"
  /\ UNCHANGED << work, deferral, loop, requests, outstanding, leftover, swallowed >>

\* The server is closed and the loop goes round: the next params.start() reads
\* the configuration and makes new reload handlers.  Timers and polls live on.
RestartInProcess ==
  /\ shuttingDown = "closing" /\ loop \in {"serving", "failed"}
  /\ shuttingDown' = "no" /\ loop' = "starting" /\ outstanding' = FALSE
  /\ polls' = [polls EXCEPT !["watcher"] = 0, !["former"] = @ + polls["watcher"]]
  /\ restartPending' = FALSE
  /\ UNCHANGED << work, timer, requests, leftover, swallowed >>

\* The same while params.start() has not returned: the promise that is resolved
\* is the one of the last round.
RestartSwallowed ==
  /\ shuttingDown = "closing" /\ loop = "starting"
  /\ shuttingDown' = "no" /\ swallowed' = TRUE
  /\ UNCHANGED << work, deferral, loop, requests, outstanding, leftover >>

\* params.start() returns or, on a restart, fails and waits to be fixed.
Started ==
  /\ loop = "starting" /\ loop' \in {"serving", "failed"}
  /\ UNCHANGED << work, deferral, shuttingDown, requests, outstanding, leftover, swallowed >>

\* The process exits: replaced by a fresh one, or stopped.
Exit ==
  /\ Alive /\ shuttingDown = "closing" /\ loop' = "exited"
  /\ UNCHANGED << work, deferral, shuttingDown, requests, outstanding, leftover, swallowed >>

Handle == Drained \/ RestartInProcess \/ RestartSwallowed \/ Started

RestartNext ==
  \/ Begin \/ End
  \/ Schedule \/ ConfigChanged \/ ExternalSignal
  \/ TimerFires \/ \E path \in Paths : PollEnds(path)
  \/ Handle \/ Exit

RestartSpec == RestartInit /\ [][RestartNext]_restartVars

\* Timers fire, polls end after 90 s at the latest, drains and closes do too (or
\* the force-exit timer ends the process), and params.start() settles.
RestartFairSpec ==
  /\ RestartSpec
  /\ WF_restartVars(TimerFires) /\ \A path \in Paths : WF_restartVars(PollEnds(path))
  /\ WF_restartVars(Handle)

-----------------------------------------------------------------------------
(* What the parts promise together.                                        *)

\* No request is lost between the coalescing of timers, the watcher's flag, the
\* clearing of the timer by every emission and the signals ignored during a
\* shutdown: after it a server is started, or the process exits, unless a
\* restart was swallowed by a server that was starting.
RequestIsServed == outstanding ~> ~outstanding \/ loop = "exited" \/ swallowed

\* A restart begins only while some request has not been served by an earlier
\* one, which is what the clearing of the timer by every emission is for ("to
\* ensure only one restart fires", infra/restart.ts:108).  What no emission
\* clears is the exception: the polls of other requests, a timer set during the
\* shutdown, and any timer when the signal comes from outside, end with a restart
\* of their own.
NoNeedlessRestart ==
  [][shuttingDown = "no" /\ shuttingDown' = "draining" => outstanding' \/ leftover]_restartVars
=============================================================================
