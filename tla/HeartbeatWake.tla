--------------------------- MODULE HeartbeatWake ---------------------------
(***************************************************************************)
(* The wake layer of heartbeats (infra/heartbeat-wake.ts): requests are    *)
(* merged per target, one timer collects them, its callback hands the      *)
(* batch to the handler of the heartbeat runner that is registered, and a  *)
(* busy or failed answer is retried after a cooldown.                      *)
(*                                                                         *)
(* Runners (infra/heartbeat-runner.ts) come and go with in-process         *)
(* restarts, while a callback may still await an answer of an older one.   *)
(* A callback in flight is a batch; everything between two of its awaits   *)
(* is one action.  Of a reason only its priority matters.  The comparison  *)
(* of due times is a choice, because delays are not modelled.              *)
(***************************************************************************)
EXTENDS Naturals, FiniteSets

CONSTANTS
  NumTargets,   \* wake targets (agent and session key)
  Priorities,   \* priorities of the reasons in use; REASON_PRIORITY, at least 1
  MaxRequests,  \* bound: calls of requestHeartbeatNow
  MaxRunners,   \* bound: runners ever started
  MaxFailures   \* bound: answers that throw

Targets == 1 .. NumTargets
Runners == 1 .. MaxRunners

ASSUME ConstantsAssumption ==
  /\ {NumTargets, MaxRequests, MaxRunners, MaxFailures} \subseteq Nat
  /\ Priorities \subseteq 1 .. 3

VARIABLES
  pending,    \* pendingWakes: the priority waiting for each target, 0 for none
  timer,      \* timerKind, or "none"
  scheduled, running,
  handler,    \* the runner whose handler is registered, 0 for none
  started, stopped,   \* runners started so far, and those that were stopped
  batch,      \* the callbacks in flight
  requests, failures,
  owed,       \* history: targets with a request that no answer has settled
  dropped     \* history: those of them whose wake went to a stopped runner

wakes == << pending, timer, scheduled, running, batch >>
runners == << handler, started, stopped >>
history == << owed, dropped >>
vars == << wakes, runners, requests, failures, history >>

\* Every runner that is registered lets one more callback overlap, not more.
Callbacks == Runners

TypeOK ==
  /\ pending \in [Targets -> 0 .. 3]
  /\ timer \in {"none", "normal", "retry"}
  /\ scheduled \in BOOLEAN /\ running \in BOOLEAN
  /\ handler \in Runners \cup {0}
  /\ started \in 0 .. MaxRunners /\ stopped \subseteq 1 .. started
  /\ batch \in [Callbacks -> [ runner : Runners \cup {0}, wakes : [Targets -> 0 .. 3],
                               todo : SUBSET Targets, current : Targets \cup {0},
                               heard : BOOLEAN ]]
  /\ requests \in 0 .. MaxRequests /\ failures \in 0 .. MaxFailures
  /\ owed \subseteq Targets /\ dropped \subseteq Targets

NoWakes == [t \in Targets |-> 0]
NoBatch == [runner |-> 0, wakes |-> NoWakes, todo |-> {}, current |-> 0, heard |-> FALSE]

Init ==
  /\ pending = NoWakes /\ timer = "none" /\ scheduled = FALSE /\ running = FALSE
  /\ handler = 0 /\ started = 0 /\ stopped = {}
  /\ batch = [c \in Callbacks |-> NoBatch]
  /\ requests = 0 /\ failures = 0
  /\ owed = {} /\ dropped = {}

-----------------------------------------------------------------------------
InFlight == { c \in Callbacks : batch[c].runner # 0 }

\* queuePendingWakeReason: the higher priority stays.
Queue(pend, ws) == [t \in Targets |-> IF ws[t] > pend[t] THEN ws[t] ELSE pend[t]]

Single(t, p) == [NoWakes EXCEPT ![t] = p]

\* schedule: what the timer may be afterwards.  A retry timer stays, and a
\* normal one stays unless the new one is due earlier.
Arm(tm, kind) ==
  CASE tm = "none" -> {kind}
    [] tm = "retry" -> {"retry"}
    [] tm = "normal" -> {"normal", kind}

\* A batch goes on to one of the wakes it has left; the handler looks first
\* whether its runner was stopped.
Calling(b) ==
  { [b EXCEPT !.todo = @ \ {t}, !.current = t, !.heard = b.runner \notin stopped] : t \in b.todo }

\* The finally block of callback c.
Finally(c, pend, tm) ==
  /\ running' = FALSE
  /\ batch' = [batch EXCEPT ![c] = NoBatch]
  /\ timer' \in IF pend # NoWakes \/ scheduled THEN Arm(tm, "normal") ELSE {tm}

\* Callback c goes on after an answer, with these pending wakes and this timer.
GoOn(c, pend, tm) ==
  IF batch[c].todo = {}
  THEN Finally(c, pend, tm)
  ELSE /\ \E b \in Calling(batch[c]) : batch' = [batch EXCEPT ![c] = b]
       /\ timer' = tm
       /\ UNCHANGED running

-----------------------------------------------------------------------------
\* requestHeartbeatNow.
Request(t, p) ==
  /\ requests < MaxRequests
  /\ requests' = requests + 1
  /\ pending' = Queue(pending, Single(t, p))
  /\ timer' \in Arm(timer, "normal")
  /\ owed' = owed \cup {t} /\ dropped' = dropped \ {t}
  /\ UNCHANGED << scheduled, running, batch, runners, failures >>

\* The timer fires, and nobody is registered.
FireUnheard ==
  /\ timer # "none" /\ handler = 0
  /\ timer' = "none" /\ scheduled' = FALSE
  /\ UNCHANGED << pending, running, batch, runners, requests, failures, history >>

\* It fires while a callback runs: it is set again.
FireWhileRunning ==
  /\ timer # "none" /\ handler # 0 /\ running
  /\ scheduled' = TRUE
  /\ UNCHANGED << pending, timer, running, batch, runners, requests, failures, history >>

\* It fires and the handler is given the batch; an empty batch ends at once.
Fire(c) ==
  /\ timer # "none" /\ handler # 0 /\ ~running /\ batch[c] = NoBatch
  /\ timer' = "none" /\ scheduled' = FALSE /\ pending' = NoWakes
  /\ running' = (pending # NoWakes)
  /\ IF pending = NoWakes
     THEN UNCHANGED batch
     ELSE \E b \in Calling([NoBatch EXCEPT !.runner = handler, !.wakes = pending,
                                           !.todo = { t \in Targets : pending[t] # 0 }]) :
            batch' = [batch EXCEPT ![c] = b]
  /\ UNCHANGED << runners, requests, failures, history >>

\* Another callback or the queue still has a wake of target t.
StillAsked(t, c) ==
  \/ pending[t] # 0
  \/ \E d \in Callbacks \ {c} : batch[d].current = t \/ t \in batch[d].todo

\* The handler answers: it ran, failed or skipped the wake.  A runner that had
\* been stopped when it was called skips without looking.
Answer(c) ==
  LET t == batch[c].current
  IN
  /\ c \in InFlight
  /\ GoOn(c, pending, timer)
  /\ owed' = IF batch[c].heard /\ ~StillAsked(t, c) THEN owed \ {t} ELSE owed
  /\ dropped' = IF batch[c].heard \/ StillAsked(t, c) THEN dropped ELSE dropped \cup {t}
  /\ UNCHANGED << pending, scheduled, runners, requests, failures >>

\* It answers that requests are in flight: the wake is queued again.
AnswerBusy(c) ==
  LET t == batch[c].current
      again == Queue(pending, Single(t, batch[c].wakes[t]))
  IN
  /\ c \in InFlight /\ batch[c].heard
  /\ pending' = again
  /\ \E tm \in Arm(timer, "retry") : GoOn(c, again, tm)
  /\ UNCHANGED << scheduled, runners, requests, failures, history >>

\* Faulty variant: only the wake whose answer threw is queued again.
ThrowKeepsCurrent(c) ==
  LET t == batch[c].current
      again == Queue(pending, Single(t, batch[c].wakes[t]))
  IN
  /\ c \in InFlight /\ batch[c].heard /\ failures < MaxFailures
  /\ failures' = failures + 1
  /\ pending' = again
  /\ \E tm \in Arm(timer, "retry") : Finally(c, again, tm)
  /\ UNCHANGED << scheduled, runners, requests, history >>

\* It throws: every wake of the batch is queued again, answered or not.
Throw(c) ==
  LET again == Queue(pending, batch[c].wakes)
  IN
  /\ c \in InFlight /\ batch[c].heard /\ failures < MaxFailures
  /\ failures' = failures + 1
  /\ pending' = again
  /\ \E tm \in Arm(timer, "retry") : Finally(c, again, tm)
  /\ UNCHANGED << scheduled, runners, requests, history >>

-----------------------------------------------------------------------------
\* Faulty variant: wakes that came before the handler get no timer.
StartRunnerWithoutTimer ==
  /\ started < MaxRunners
  /\ started' = started + 1 /\ handler' = started + 1
  /\ timer' = "none" /\ scheduled' = FALSE /\ running' = FALSE
  /\ UNCHANGED << pending, stopped, batch, requests, failures, owed, dropped >>

\* startHeartbeatRunner registers its handler, which forgets the timer and the
\* flags of the one before.
StartRunner ==
  /\ started < MaxRunners
  /\ started' = started + 1 /\ handler' = started + 1
  /\ timer' = IF pending # NoWakes THEN "normal" ELSE "none"
  /\ scheduled' = FALSE /\ running' = FALSE
  /\ UNCHANGED << pending, stopped, batch, requests, failures, owed, dropped >>

\* Faulty variant: the disposer clears whatever is registered.
StopRunnerAny(r) ==
  /\ r <= started /\ r \notin stopped
  /\ stopped' = stopped \cup {r}
  /\ handler' = 0
  /\ UNCHANGED << wakes, started, requests, failures, history >>

\* A runner is stopped; its disposer does nothing if another one has come.
StopRunner(r) ==
  /\ r <= started /\ r \notin stopped
  /\ stopped' = stopped \cup {r}
  /\ handler' = IF handler = r THEN 0 ELSE handler
  /\ UNCHANGED << wakes, started, requests, failures, history >>

Next ==
  \/ \E t \in Targets, p \in Priorities : Request(t, p)
  \/ FireUnheard \/ FireWhileRunning
  \/ \E c \in Callbacks : Fire(c) \/ Answer(c) \/ AnswerBusy(c) \/ Throw(c)
  \/ StartRunner
  \/ \E r \in Runners : StopRunner(r)

Spec == Init /\ [][Next]_vars

\* Timers fire, and a handler answers (a heartbeat is an agent run, which ends).
\* Nothing says that it is ever not busy.
FairSpec ==
  /\ Spec
  /\ WF_vars(\E c \in Callbacks : Fire(c))
  /\ \A c \in Callbacks : WF_vars(Answer(c) \/ AnswerBusy(c) \/ Throw(c))

-----------------------------------------------------------------------------
\* While a runner is registered no wake waits without a timer or a callback
\* that will set one, whatever was requested, answered, thrown or registered
\* in mid-batch.
NoStrandedWake == handler # 0 /\ pending # NoWakes => timer # "none" \/ InFlight # {}

\* A requested wake is waiting or in a batch until it is answered; only a
\* runner that was stopped in mid-batch may drop it.
EveryWakeAccounted ==
  \A t \in owed \ dropped :
    pending[t] # 0 \/ \E c \in InFlight : batch[c].current = t \/ t \in batch[c].todo

\* A wake that waits is handed over, unless the newest runner has been stopped:
\* whatever older runners do when they are stopped late, it stays registered.
WaitingWakeIsHandedOver ==
  \A t \in Targets : pending[t] # 0 ~> (pending[t] = 0 \/ started \in stopped \cup {0})
=============================================================================
