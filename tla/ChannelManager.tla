--------------------------- MODULE ChannelManager ---------------------------
(***************************************************************************)
(* The channel manager of the gateway (gateway/server-channels.ts) for one *)
(* account of one channel: the registered task and its abort controller,   *)
(* starts, stops, restarts after a crash, and the callers that combine     *)
(* them: a config reload and the health monitor (a stop, then a start), a  *)
(* logout (a stop, then a patch of the status).  Accounts share no state,  *)
(* so one is enough.                                                       *)
(*                                                                         *)
(* A step is what runs between two awaits: a start awaits isConfigured     *)
(* after it has looked at the registered task and before it registers its  *)
(* own, a stop awaits the plugin's stop hook and then the task it found.   *)
(* Whether the account is enabled and configured is a choice at each look. *)
(***************************************************************************)
EXTENDS Naturals, FiniteSets

CONSTANTS
  Hooks,              \* whether the plugin has a stopAccount hook: the cases to check
  MaxRestartAttempts, \* MAX_RESTART_ATTEMPTS
  NumCalls,           \* bound: starts, stops, reloads, logouts, monitor restarts
  MaxExits            \* bound: tasks that end by themselves

ASSUME ChannelConstants ==
  /\ Hooks \subseteq BOOLEAN
  /\ {MaxRestartAttempts, NumCalls, MaxExits} \subseteq Nat

Calls == 1 .. NumCalls
\* At most one task for every call and for every restart.
Tasks == 1 .. NumCalls + MaxExits

VARIABLES
  hook,       \* the plugin has a stopAccount hook
  task,       \* the tasks launched: where each one's promise chain is
  aborted,    \* the tasks whose abort signal has fired
  registered, \* the entries of the account in store.tasks and store.aborts, which
              \* are set and deleted together: the task they belong to, 0 for none
  manual,     \* the account is in manuallyStopped
  attempts,   \* restartAttempts
  running,    \* the runtime snapshot says running
  call,       \* the calls: what each asks for, and where it is
  exits,      \* tasks that have ended by themselves
  overlapped, \* history: a start got past the look at store.tasks, or a stop looked at
              \* it, while a start was being configured; or a start did so while a
              \* stop or a logout was not over
  halted      \* history: a stop or logout is done, and no call has started since

account == << task, aborted, registered, manual, attempts, running >>
channelVars == << hook, account, call, exits, overlapped, halted >>

Kinds == {"start", "stop", "reload", "logout", "monitor"}

ChannelTypeOK ==
  /\ hook \in BOOLEAN
  /\ task \in [Tasks -> {"none", "up", "down", "sleeping", "configuring", "gone"}]
  /\ aborted \subseteq Tasks /\ registered \in Tasks \cup {0}
  /\ manual \in BOOLEAN /\ running \in BOOLEAN
  /\ attempts \in 0 .. IF overlapped THEN NumCalls + MaxExits ELSE MaxRestartAttempts + 1
  /\ call \in [Calls -> [ kind : Kinds, task : Tasks \cup {0},
                          stage : {"new", "hook", "waiting", "stopped", "configuring", "over"} ]]
  /\ exits \in 0 .. MaxExits
  /\ overlapped \in BOOLEAN /\ halted \in BOOLEAN

ChannelInit ==
  /\ hook \in Hooks
  /\ task = [t \in Tasks |-> "none"] /\ aborted = {} /\ registered = 0
  /\ manual = FALSE /\ attempts = 0 /\ running = FALSE
  /\ call = [c \in Calls |-> [kind |-> "start", stage |-> "new", task |-> 0]]
  /\ exits = 0 /\ overlapped = FALSE /\ halted = FALSE

-----------------------------------------------------------------------------
Up == { t \in Tasks : task[t] = "up" }
At(stage) == { c \in Calls : call[c].stage = stage }
Configuring == At("configuring") # {} \/ \E t \in Tasks : task[t] = "configuring"
Stopping == At("hook") \cup At("waiting") \cup { c \in At("stopped") : call[c].kind = "logout" } # {}

NextTask == CHOOSE t \in Tasks : task[t] = "none" /\ \A u \in Tasks : u < t => task[u] # "none"

Without(t) == IF registered = t THEN 0 ELSE registered

\* The first half of startChannelInternal, with r registered: whoever starts (a
\* call or a chain) goes on (on), or is done because a task is there or the
\* account is disabled (not on).
Look(on, r) ==
  \/ on /\ r = 0 /\ overlapped' = (overlapped \/ Configuring \/ Stopping) /\ UNCHANGED running
  \/ ~on /\ r # 0 /\ UNCHANGED << running, overlapped >>
  \/ ~on /\ r = 0 /\ running' = FALSE /\ UNCHANGED overlapped

\* Faulty variant: the launched task is not put into store.tasks.
LaunchUnregistered(left) ==
  /\ task' = [left EXCEPT ![NextTask] = "up"] /\ running' = TRUE /\ UNCHANGED registered

\* The second half: the account is configured and a task launched, given the
\* tasks as the starter leaves them (left); or isConfigured says no, or throws.
Launch(left) ==
  /\ task' = [left EXCEPT ![NextTask] = "up"] /\ registered' = NextTask /\ running' = TRUE
NoLaunch(left) ==
  /\ task' = left /\ running' \in {FALSE, running} /\ UNCHANGED registered

-----------------------------------------------------------------------------
(* The promise chain of a task.                                            *)

\* startAccount returns or fails: by itself, or because the signal has fired.
TaskExit(t) ==
  /\ task[t] = "up"
  /\ exits' = IF t \in aborted THEN exits ELSE exits + 1
  /\ exits' <= MaxExits
  /\ task' = [task EXCEPT ![t] = "down"] /\ running' = FALSE
  /\ UNCHANGED << hook, aborted, registered, manual, attempts, call, overlapped, halted >>

\* Faulty variant: a chain that gives up leaves its entries behind.
GiveUpKeepingEntry(t) ==
  /\ task[t] = "down"
  /\ manual \/ attempts + 1 > MaxRestartAttempts
  /\ attempts' = IF manual THEN attempts ELSE attempts + 1
  /\ task' = [task EXCEPT ![t] = "gone"]
  /\ UNCHANGED << hook, aborted, registered, manual, running, call, exits, overlapped, halted >>

\* Nothing more if the account was stopped by hand or the attempts are used up.
GiveUp(t) ==
  /\ task[t] = "down"
  /\ manual \/ attempts + 1 > MaxRestartAttempts
  /\ attempts' = IF manual THEN attempts ELSE attempts + 1
  /\ task' = [task EXCEPT ![t] = "gone"] /\ registered' = Without(t)
  /\ UNCHANGED << hook, aborted, manual, running, call, exits, overlapped, halted >>

Backoff(t) ==
  /\ task[t] = "down" /\ ~manual /\ attempts + 1 <= MaxRestartAttempts
  /\ attempts' = attempts + 1
  /\ task' = [task EXCEPT ![t] = "sleeping"]
  /\ UNCHANGED << hook, aborted, registered, manual, running, call, exits, overlapped, halted >>

\* The sleep is over, or cut short by the signal; the chain gives up its entries
\* and, unless stopped, starts the account again.
Wake(t) ==
  /\ task[t] = "sleeping"
  /\ registered' = Without(t)
  /\ \E on \in BOOLEAN :
       /\ task' = [task EXCEPT ![t] = IF on THEN "configuring" ELSE "gone"]
       /\ IF manual \/ t \in aborted
          THEN ~on /\ UNCHANGED << running, overlapped >>
          ELSE Look(on, Without(t))
  /\ UNCHANGED << hook, aborted, manual, attempts, call, exits, halted >>

\* A restart keeps manuallyStopped and the attempts.
Restart(t) ==
  /\ task[t] = "configuring"
  /\ LET left == [task EXCEPT ![t] = "gone"] IN Launch(left) \/ NoLaunch(left)
  /\ UNCHANGED << hook, aborted, manual, attempts, call, exits, overlapped, halted >>

-----------------------------------------------------------------------------
(* The calls.                                                              *)

\* Calls are taken in the order of their numbers; one monitor check at a time.
Fresh(c) == c \in At("new") /\ \A d \in At("new") : c <= d
MonitorMayAct == ~manual /\ \A d \in Calls : call[d].kind = "monitor" => call[d].stage \in {"new", "over"}

\* A call turns to starting the account; the monitor resets the attempts first.
BeginStart(c, kind) ==
  /\ \E on \in BOOLEAN :
       /\ Look(on, registered)
       /\ call' = [call EXCEPT ![c] = [kind |-> kind, stage |-> IF on THEN "configuring" ELSE "over", task |-> 0]]
  /\ attempts' = IF kind = "monitor" THEN 0 ELSE attempts
  /\ halted' = FALSE
  /\ UNCHANGED << hook, task, aborted, registered, manual, exits >>

StartCall(c) == Fresh(c) /\ BeginStart(c, "start")

\* Faulty variant: a start leaves the attempts of the task before it.
FinishStartCounting(c) ==
  /\ c \in At("configuring")
  /\ call' = [call EXCEPT ![c].stage = "over"]
  /\ \/ Launch(task) /\ manual' = FALSE /\ UNCHANGED attempts
     \/ NoLaunch(task) /\ UNCHANGED << manual, attempts >>
  /\ UNCHANGED << hook, aborted, exits, overlapped, halted >>

\* startChannelInternal after isConfigured.
FinishStart(c) ==
  /\ c \in At("configuring")
  /\ call' = [call EXCEPT ![c].stage = "over"]
  /\ \/ Launch(task) /\ manual' = FALSE /\ attempts' = 0
     \/ NoLaunch(task) /\ UNCHANGED << manual, attempts >>
  /\ UNCHANGED << hook, aborted, exits, overlapped, halted >>

\* What a call does when its stopChannel has returned.
AfterStop(kind) == IF kind = "stop" THEN "over" ELSE "stopped"

\* Faulty variant: the stop marks the account and fires no signal.
BeginStopSilently(c, kind) ==
  /\ call' = [call EXCEPT ![c] = [kind |-> kind, task |-> registered,
                                  stage |-> IF hook THEN "hook" ELSE "waiting"]]
  /\ manual' = TRUE
  /\ overlapped' = (overlapped \/ Configuring)
  /\ UNCHANGED << hook, task, aborted, registered, attempts, running, exits, halted >>

\* stopChannel: with nothing to stop it returns and marks nothing.
BeginStop(c, kind) ==
  /\ IF registered = 0 /\ ~hook
     THEN /\ call' = [call EXCEPT ![c] = [kind |-> kind, stage |-> AfterStop(kind), task |-> 0]]
          /\ halted' = (halted \/ kind \in {"stop", "logout"})
          /\ UNCHANGED << manual, aborted >>
     ELSE /\ call' = [call EXCEPT ![c] = [kind |-> kind, task |-> registered,
                                          stage |-> IF hook THEN "hook" ELSE "waiting"]]
          /\ manual' = TRUE /\ aborted' = aborted \cup ({registered} \ {0})
          /\ UNCHANGED halted
  /\ overlapped' = (overlapped \/ Configuring)
  /\ UNCHANGED << hook, task, registered, attempts, running, exits >>

StopCall(c, kind) == Fresh(c) /\ kind \in {"stop", "reload", "logout"} /\ BeginStop(c, kind)

\* The health monitor finds the account unhealthy: not running, or running and
\* stale (a choice).
MonitorCall(c) ==
  /\ Fresh(c) /\ MonitorMayAct
  /\ IF running THEN BeginStop(c, "monitor") ELSE BeginStart(c, "monitor")

HookReturns(c) ==
  /\ c \in At("hook")
  /\ call' = [call EXCEPT ![c].stage = "waiting"]
  /\ UNCHANGED << hook, account, exits, overlapped, halted >>

\* stopAccount throws: the call ends there.
HookThrows(c) ==
  /\ c \in At("hook")
  /\ call' = [call EXCEPT ![c].stage = "over"]
  /\ UNCHANGED << hook, account, exits, overlapped, halted >>

\* Faulty variant: the stop does not wait for the task.
FinishStopAtOnce(c) ==
  /\ c \in At("waiting")
  /\ registered' = 0 /\ running' = FALSE
  /\ call' = [call EXCEPT ![c].stage = AfterStop(call[c].kind)]
  /\ halted' = (halted \/ call[c].kind \in {"stop", "logout"})
  /\ UNCHANGED << hook, task, aborted, manual, attempts, exits, overlapped >>

\* The task the stop found is over; whatever is registered by now is deleted.
FinishStop(c) ==
  /\ c \in At("waiting")
  /\ call[c].task # 0 => task[call[c].task] = "gone"
  /\ registered' = 0 /\ running' = FALSE
  /\ call' = [call EXCEPT ![c].stage = AfterStop(call[c].kind)]
  /\ halted' = (halted \/ call[c].kind \in {"stop", "logout"})
  /\ UNCHANGED << hook, task, aborted, manual, attempts, exits, overlapped >>

StartAgain(c) ==
  /\ c \in At("stopped") /\ call[c].kind \in {"reload", "monitor"}
  /\ BeginStart(c, call[c].kind)

\* The plugin's logoutAccount has settled: markChannelLoggedOut, if it worked.
MarkLoggedOut(c) ==
  /\ c \in At("stopped") /\ call[c].kind = "logout"
  /\ running' \in {FALSE, running}
  /\ call' = [call EXCEPT ![c].stage = "over"]
  /\ UNCHANGED << hook, task, aborted, registered, manual, attempts, exits, overlapped, halted >>

Chain(t) == TaskExit(t) \/ GiveUp(t) \/ Backoff(t) \/ Wake(t) \/ Restart(t)
GoOn(c) == FinishStart(c) \/ HookReturns(c) \/ HookThrows(c) \/ FinishStop(c) \/ StartAgain(c) \/ MarkLoggedOut(c)

ChannelNext ==
  \/ \E t \in Tasks : Chain(t)
  \/ \E c \in Calls : GoOn(c) \/ StartCall(c) \/ MonitorCall(c) \/ \E kind \in Kinds : StopCall(c, kind)

ChannelSpec == ChannelInit /\ [][ChannelNext]_channelVars

\* Timers fire, isConfigured and the hooks settle, and a plugin's startAccount
\* settles once its signal has fired (what its abortSignal is for).
ChannelFairSpec ==
  /\ ChannelSpec
  /\ \A t \in Tasks : WF_channelVars(Chain(t) /\ (task[t] = "up" => t \in aborted))
  /\ \A c \in Calls : WF_channelVars(GoOn(c))

-----------------------------------------------------------------------------
(* What the manager promises.                                              *)

Live == { t \in Tasks : task[t] \in {"up", "down", "sleeping"} }

\* Calls that do not overlap leave no task behind that is running, or about to be
\* restarted, and that store.tasks and store.aborts no longer name: every later
\* start sees it and every later stop reaches it.  In particular at most one task
\* of the account is up.  (startChannelInternal's entries against the deletions of
\* the chain and of stopChannel.)
EveryTaskIsRegistered == overlapped \/ \A t \in Live : registered = t

\* Whatever the calls do, a task named in store.tasks still has its chain ahead
\* of it: a dead entry would turn every later start of the account away.
RegistrationIsLive == registered # 0 => registered \in Live

\* Once a stop or a logout is over, no task is up until a call starts the account
\* again: neither a crash being handled nor a restart being waited for brings it
\* back, unless the stop came while a start was being configured.
StopIsFinal == halted /\ ~overlapped => Up = {}

\* A restart by a chain never brings an account back that a stop or logout has
\* ended ("Tracks accounts that were manually stopped so we don't auto-restart
\* them"; the test "does not auto-restart after manual stop during backoff").
NoRestartAfterStop == [][Up' \ Up # {} /\ call' = call => ~halted]_channelVars

\* Every call returns, in whatever order calls, crashes and restarts come: a stop
\* is never left waiting for a task nobody ends.
CallsReturn == \A c \in Calls : call[c].stage # "new" ~> call[c].stage = "over"
=============================================================================
