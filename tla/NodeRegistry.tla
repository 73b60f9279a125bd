---------------------------- MODULE NodeRegistry ----------------------------
(***************************************************************************)
(* One iOS node and the gateway: its connections and the registry of       *)
(* connected nodes (gateway/node-registry.ts), node.invoke with its wake-  *)
(* and-wait and its queue of foreground actions (server-methods/nodes.ts), *)
(* and the app, which runs the invocations and replays the queue           *)
(* (apps/ios/Sources/Model/NodeAppModel.swift).                            *)
(*                                                                         *)
(* A connection is known by its number in the order of opening.  A queued  *)
(* action is known by the invocation that queued it.  Expired actions are  *)
(* pruned whenever the queue is read, so here they leave it as they expire.*)
(***************************************************************************)
EXTENDS Naturals, Sequences, FiniteSets

CONSTANTS
  Invokes,     \* the node.invoke requests
  Restricted,  \* those of a command that needs the app in the foreground
  Keyings,     \* how the requests may share their idempotencyKeys: functions on Invokes
  NumConns,    \* bound: connections of the node
  Narrow,      \* connections that do not declare the restricted commands
  MaxPending   \* NODE_PENDING_ACTION_MAX_PER_NODE

Conns == 1 .. NumConns

ASSUME NodeConstants ==
  /\ Restricted \subseteq Invokes
  /\ NumConns \in Nat /\ MaxPending \in Nat \ {0}
  /\ Narrow \subseteq Conns

VARIABLES
  key,        \* the idempotencyKey of each request
  link,       \* the socket: "none", "open", "lost" (it carries nothing to the node and
              \* the gateway has not seen its close), "closed" (its close was handled)
  hello,      \* the handshake: "none", "waiting" in its awaits, "done"
  byConn,     \* nodesByConn
  byId,       \* nodesById: the connection of the node's session, 0 without one
  wokeLately, \* lastWakeAtMs is within NODE_WAKE_THROTTLE_MS
  step,       \* where each invocation is, or its answer
  sentOn,     \* the connection its request was sent on
  wire,       \* its request, or the node's reply, on the way
  queue,      \* pendingNodeActionsById
  background, \* isBackgrounded of the app
  todo,       \* the actions the app pulled and is replaying
  acking,     \* it has run the head of todo and is acknowledging it
  ran,        \* history: how often the app replayed an action
  dropped,    \* history: actions that expired, were pushed out by newer ones, or
              \* were not declared by the connection that pulled
  ackFailed,  \* history: actions whose acknowledgement failed
  displaced,  \* history: the session's connection when the close of another removed
              \* it, or the handshake of an older one ended
  lateConns   \* history: connections whose handshake ended after their close

registry == << byConn, byId >>
socket == << link, hello, displaced, lateConns >>
app == << background, todo, acking, ran, ackFailed >>
nodeVars == << key, socket, registry, wokeLately, step, sentOn, wire, queue, app, dropped >>

\* maybeWakeNodeWithApns is awaited in these: every caller joins the push in flight.
WakeSteps == {"waking", "rewaking", "queueing"}
Answers == {"ok", "notConnected", "refused", "timeout", "disconnected", "queued"}
Steps == {"new", "waiting", "rewaiting", "nudging", "pending"} \union WakeSteps \union Answers

NodeTypeOK ==
  /\ key \in Keyings
  /\ link \in [Conns -> {"none", "open", "lost", "closed"}]
  /\ hello \in [Conns -> {"none", "waiting", "done"}]
  /\ byConn \in SUBSET Conns /\ byId \in 0 .. NumConns
  /\ wokeLately \in BOOLEAN
  /\ step \in [Invokes -> Steps] /\ sentOn \in [Invokes -> 0 .. NumConns]
  /\ wire \in [Invokes -> {"none", "request", "ok", "refused"}]
  /\ queue \in Seq(Invokes) /\ Len(queue) <= MaxPending
  /\ background \in BOOLEAN /\ todo \in Seq(Invokes) /\ acking \in BOOLEAN
  /\ ran \in [Invokes -> Nat]
  /\ dropped \in SUBSET Invokes /\ ackFailed \in SUBSET Invokes
  /\ displaced \in SUBSET Conns /\ lateConns \in SUBSET Conns

NodeInit ==
  /\ key \in Keyings
  /\ link = [c \in Conns |-> "none"] /\ hello = [c \in Conns |-> "none"]
  /\ byConn = {} /\ byId = 0 /\ wokeLately = FALSE
  /\ step = [i \in Invokes |-> "new"] /\ sentOn = [i \in Invokes |-> 0]
  /\ wire = [i \in Invokes |-> "none"] /\ queue = << >>
  /\ background = FALSE /\ todo = << >> /\ acking = FALSE
  /\ ran = [i \in Invokes |-> 0]
  /\ dropped = {} /\ ackFailed = {} /\ displaced = {} /\ lateConns = {}

\* isNodeCommandAllowed: the session's connection declared the command.
Allowed(i, c) == i \in Restricted => c \notin Narrow

\* The node can use a connection once the gateway has answered its connect.
Usable(c) == link[c] = "open" /\ hello[c] = "done"

Entries(q) == {q[n] : n \in 1 .. Len(q)}

\* The filter of q, of its entries that are in S: the k-th is the one with k kept ones
\* up to and with its own.
Filtered(q, S) ==
  LET kept == {n \in 1 .. Len(q) : q[n] \in S}
      Place(n) == Cardinality({m \in kept : m <= n})
  IN  [k \in 1 .. Cardinality(kept) |-> q[CHOOSE n \in kept : Place(n) = k]]

-----------------------------------------------------------------------------
(* Connections.                                                            *)

\* The app opens a connection when it has none, or has given up the last one.
Connect(c) ==
  /\ link[c] = "none" /\ \A d \in 1 .. c - 1 : link[d] \in {"lost", "closed"}
  /\ link' = [link EXCEPT ![c] = "open"] /\ hello' = [hello EXCEPT ![c] = "waiting"]
  /\ UNCHANGED << key, displaced, lateConns, registry, wokeLately, step, sentOn, wire, queue,
                  app, dropped >>

\* Faulty variant: a session that is there already is kept.
RegisterKeepsFirst(c) ==
  /\ hello[c] = "waiting"
  /\ hello' = [hello EXCEPT ![c] = "done"]
  /\ byId' = IF byId = 0 THEN c ELSE byId
  /\ byConn' = byConn \union {c}
  /\ lateConns' = IF link[c] = "closed" THEN lateConns \union {c} ELSE lateConns
  /\ UNCHANGED << key, link, displaced, wokeLately, step, sentOn, wire, queue, app, dropped >>

\* The end of the handshake.  Nothing looks at the socket again after its awaits.
Register(c) ==
  /\ hello[c] = "waiting"
  /\ hello' = [hello EXCEPT ![c] = "done"]
  /\ byId' = c /\ byConn' = byConn \union {c}
  /\ displaced' = IF byId > c THEN displaced \union {byId} ELSE displaced
  /\ lateConns' = IF link[c] = "closed" THEN lateConns \union {c} ELSE lateConns
  /\ UNCHANGED << key, link, wokeLately, step, sentOn, wire, queue, app, dropped >>

\* The phone sleeps or changes network, or the gateway's handshake timer gives it up.
Lose(c) ==
  /\ link[c] = "open"
  /\ link' = [link EXCEPT ![c] = "lost"]
  /\ UNCHANGED << key, hello, displaced, lateConns, registry, wokeLately, step, sentOn, wire, queue,
                  app, dropped >>

\* Faulty variant: the outstanding invokes are left to their timers.
UnregisterOnly(c) ==
  /\ byConn' = byConn \ {c} /\ byId' = 0
  /\ displaced' = IF byId \notin {0, c} THEN displaced \union {byId} ELSE displaced
  /\ step' = step

\* unregister: the session goes whoever's it is, and with it every outstanding invoke.
Unregister(c) ==
  /\ byConn' = byConn \ {c} /\ byId' = 0
  /\ displaced' = IF byId \notin {0, c} THEN displaced \union {byId} ELSE displaced
  /\ step' = [i \in Invokes |-> IF step[i] = "pending" THEN "disconnected" ELSE step[i]]

\* The handler of the socket's close.  Before the handshake is done it has no client.
SocketClose(c) ==
  /\ link[c] \in {"open", "lost"}
  /\ link' = [link EXCEPT ![c] = "closed"]
  /\ \/ c \in byConn /\ Unregister(c)
     \/ c \notin byConn /\ UNCHANGED << registry, displaced, step >>
  /\ UNCHANGED << key, hello, lateConns, wokeLately, sentOn, wire, queue, app, dropped >>

-----------------------------------------------------------------------------
(* node.invoke.                                                            *)

\* With a session: the policy check, then registry.invoke, all in one turn for each
\* of the callers is.  The send does not fail for a socket that carries nothing (it
\* would throw for one that is connecting, which none in the registry is).
Dispatch(is, others) ==
  LET sent == {i \in is : Allowed(i, byId)} IN
    /\ byId # 0
    /\ step' = [i \in Invokes |->
         IF i \in sent THEN "pending" ELSE IF i \in is THEN "refused" ELSE others[i]]
    /\ sentOn' = [i \in Invokes |-> IF i \in sent THEN byId ELSE sentOn[i]]
    /\ wire' = [i \in Invokes |-> IF i \in sent THEN "request" ELSE wire[i]]

Goes(i, s) == step' = [step EXCEPT ![i] = s] /\ UNCHANGED << sentOn, wire >>

\* A push is in flight while someone awaits it; without one, a recent push counts.
Pushing == \E i \in Invokes : step[i] \in WakeSteps
Throttled == wokeLately /\ ~Pushing

\* Without one: a wake by push, unless the last was too recent to repeat.
Invoke(i) ==
  /\ step[i] = "new"
  /\ \/ Dispatch({i}, step)
     \/ byId = 0 /\ Goes(i, IF Throttled THEN "waiting" ELSE "waking")
  /\ UNCHANGED << key, socket, registry, wokeLately, queue, app, dropped >>

\* Where the end of a push leads without a session: with a push that may wake the
\* app (available) to a wait, else to the nudge.
AfterWake(i, available) ==
  CASE step[i] = "queueing" -> "queued"
    [] step[i] = "waking" /\ available -> "waiting"
    [] step[i] = "rewaking" /\ available -> "rewaiting"
    [] step[i] \in {"waking", "rewaking"} /\ ~available -> "nudging"
    [] OTHER -> step[i]

\* The push ends for all who await it, and each looks at the registry.
WakeEnds ==
  /\ Pushing
  /\ \E available \in BOOLEAN :
       LET after == [i \in Invokes |-> AfterWake(i, available)] IN
         /\ \/ Dispatch({i \in Invokes : step[i] \in {"waking", "rewaking"}}, after)
            \/ byId = 0 /\ step' = after /\ UNCHANGED << sentOn, wire >>
         /\ wokeLately' \in IF available THEN {wokeLately, TRUE} ELSE {wokeLately}
  /\ UNCHANGED << key, socket, registry, queue, app, dropped >>

\* NODE_WAKE_THROTTLE_MS since the last push.
ThrottleEnds ==
  /\ wokeLately
  /\ wokeLately' = FALSE
  /\ UNCHANGED << key, socket, registry, step, sentOn, wire, queue, app, dropped >>

\* Faulty variant: the wait has no deadline.
WaitEndsConnected(i) ==
  /\ step[i] \in {"waiting", "rewaiting"}
  /\ Dispatch({i}, step)
  /\ UNCHANGED << key, socket, registry, wokeLately, queue, app, dropped >>

\* waitForNodeReconnect: a poll that finds the session, or the deadline.  The first
\* wait is followed by a push that ignores the throttle, the second by the nudge.
WaitEnds(i) ==
  /\ step[i] \in {"waiting", "rewaiting"}
  /\ \/ Dispatch({i}, step)
     \/ byId = 0 /\ Goes(i, IF step[i] = "waiting" THEN "rewaking" ELSE "nudging")
  /\ UNCHANGED << key, socket, registry, wokeLately, queue, app, dropped >>

\* maybeSendNodeWakeNudge, then the answer, whatever has connected meanwhile.
NudgeEnds(i) ==
  /\ step[i] = "nudging"
  /\ Goes(i, "notConnected")
  /\ UNCHANGED << key, socket, registry, wokeLately, queue, app, dropped >>

InvokeTimesOut(i) ==
  /\ step[i] = "pending"
  /\ Goes(i, "timeout")
  /\ UNCHANGED << key, socket, registry, wokeLately, queue, app, dropped >>

Keys(q) == {key[i] : i \in Entries(q)}

\* Faulty variant: the cap is checked before the push.
EnqueueActionThenCap(i) ==
  IF key[i] \in Keys(queue) THEN UNCHANGED << queue, dropped >>
  ELSE IF Len(queue) <= MaxPending THEN queue' = Append(queue, i) /\ UNCHANGED dropped
  ELSE queue' = Append(Tail(queue), i) /\ dropped' = dropped \union {Head(queue)}

\* enqueuePendingNodeAction: one action per key; beyond the cap the oldest goes.
EnqueueAction(i) ==
  IF key[i] \in Keys(queue) THEN UNCHANGED << queue, dropped >>
  ELSE IF Len(queue) < MaxPending THEN queue' = Append(queue, i) /\ UNCHANGED dropped
  ELSE queue' = Append(Tail(queue), i) /\ dropped' = dropped \union {Head(queue)}

\* Faulty variant: a refusal is queued although its invoke has been answered.
ResultArrivesLate(i) ==
  /\ wire[i] \in {"ok", "refused"}
  /\ \E c \in Conns : link[c] \in {"open", "lost"} /\ hello[c] = "done"
  /\ wire' = [wire EXCEPT ![i] = "none"]
  /\ \/ wire[i] = "ok"
        /\ step' = [step EXCEPT ![i] = IF @ = "pending" THEN "ok" ELSE @]
        /\ UNCHANGED << queue, dropped >>
     \/ wire[i] = "refused" /\ EnqueueAction(i)
        /\ step' = [step EXCEPT ![i] = IF @ = "pending" THEN "queueing" ELSE @]
  /\ UNCHANGED << key, socket, registry, wokeLately, sentOn, app >>

\* node.invoke.result, over any connection of the node that is not closed.  A
\* restricted command refused in the background is queued, then the node is woken.
ResultArrives(i) ==
  /\ wire[i] \in {"ok", "refused"}
  /\ \E c \in Conns : link[c] \in {"open", "lost"} /\ hello[c] = "done"
  /\ wire' = [wire EXCEPT ![i] = "none"]
  /\ \/ step[i] # "pending" /\ UNCHANGED << step, queue, dropped >>
     \/ /\ step[i] = "pending" /\ wire[i] = "ok"
        /\ step' = [step EXCEPT ![i] = "ok"] /\ UNCHANGED << queue, dropped >>
     \/ /\ step[i] = "pending" /\ wire[i] = "refused"
        /\ EnqueueAction(i)
        /\ step' = [step EXCEPT ![i] = IF Throttled THEN "queued" ELSE "queueing"]
  /\ UNCHANGED << key, socket, registry, wokeLately, sentOn, app >>

\* NODE_PENDING_ACTION_TTL_MS of the oldest action.
Expire ==
  /\ queue # << >>
  /\ queue' = Tail(queue) /\ dropped' = dropped \union {Head(queue)}
  /\ UNCHANGED << key, socket, registry, wokeLately, step, sentOn, wire, app >>

-----------------------------------------------------------------------------
(* The app.                                                                *)

\* handleInvoke: a restricted command is refused in the background.
NodeHandles(i) ==
  /\ wire[i] = "request" /\ Usable(sentOn[i])
  /\ wire' = [wire EXCEPT ![i] = IF background /\ i \in Restricted THEN "refused" ELSE "ok"]
  /\ UNCHANGED << key, socket, registry, wokeLately, step, sentOn, queue, app, dropped >>

\* What was sent to a connection that carries nothing, or the reply, is lost.
MessageLost(i) ==
  /\ wire[i] # "none" /\ link[sentOn[i]] # "open"
  /\ wire' = [wire EXCEPT ![i] = "none"]
  /\ UNCHANGED << key, socket, registry, wokeLately, step, sentOn, queue, app, dropped >>

SetScenePhase ==
  /\ background' = ~background
  /\ UNCHANGED << key, socket, registry, wokeLately, step, sentOn, wire, queue, todo, acking,
                  ran, ackFailed, dropped >>

\* resumePendingForegroundNodeActionsIfNeeded and the gateway's node.pending.pull,
\* which drops what this connection does not declare.  The answer may be lost.
Pull(c) ==
  /\ ~background /\ todo = << >> /\ Usable(c) /\ queue # << >>
  /\ LET actions == Filtered(queue, {i \in Invokes : Allowed(i, c)}) IN
       /\ queue' = actions
       /\ dropped' = dropped \union (Entries(queue) \ Entries(actions))
       /\ todo' \in {actions, << >>}
  /\ UNCHANGED << key, socket, registry, wokeLately, step, sentOn, wire, background,
                  acking, ran, ackFailed >>

\* One action of applyPendingForegroundNodeActions runs; or it is not run (the app
\* is in the background again, the command failed, the app was killed).
Replay ==
  /\ todo # << >> /\ ~acking /\ ~background
  /\ ran' = [ran EXCEPT ![Head(todo)] = @ + 1] /\ acking' = TRUE
  /\ UNCHANGED << key, socket, registry, wokeLately, step, sentOn, wire, queue, background, todo,
                  ackFailed, dropped >>

ReplayStops ==
  /\ todo # << >> /\ ~acking
  /\ todo' = << >>
  /\ UNCHANGED << key, socket, registry, wokeLately, step, sentOn, wire, queue, background, acking,
                  ran, ackFailed, dropped >>

\* ackPendingNodeActions of one id.
Unqueue(i) == Filtered(queue, Invokes \ {i})

Ack(c) ==
  /\ acking /\ Usable(c)
  /\ acking' = FALSE /\ todo' = Tail(todo) /\ queue' = Unqueue(Head(todo))
  /\ UNCHANGED << key, socket, registry, wokeLately, step, sentOn, wire, background,
                  ran, ackFailed, dropped >>

\* The request for it, or its answer, is lost, or the app is killed: the replay ends.
AckFails ==
  /\ acking /\ Head(todo) \notin ackFailed  \* bound: once for each action
  /\ acking' = FALSE /\ todo' = << >>
  /\ ackFailed' = ackFailed \union {Head(todo)}
  /\ queue' \in {queue, Unqueue(Head(todo))}
  /\ UNCHANGED << key, socket, registry, wokeLately, step, sentOn, wire, background,
                  ran, dropped >>

-----------------------------------------------------------------------------
InvokeSteps(i) ==
  \/ Invoke(i) \/ WaitEnds(i) \/ NudgeEnds(i) \/ InvokeTimesOut(i)
  \/ ResultArrives(i) \/ NodeHandles(i) \/ MessageLost(i)

ConnSteps(c) ==
  Connect(c) \/ Register(c) \/ Lose(c) \/ SocketClose(c) \/ Pull(c) \/ Ack(c)

NodeNext ==
  \/ \E i \in Invokes : InvokeSteps(i)
  \/ \E c \in Conns : ConnSteps(c)
  \/ WakeEnds \/ ThrottleEnds \/ Expire
  \/ SetScenePhase \/ Replay \/ ReplayStops \/ AckFails

NodeSpec == NodeInit /\ [][NodeNext]_nodeVars

\* A push is answered or fails, polls stop at their deadline, timers fire.
NodeFairSpec ==
  /\ NodeSpec /\ WF_nodeVars(WakeEnds)
  /\ \A i \in Invokes :
       WF_nodeVars(WaitEnds(i)) /\ WF_nodeVars(NudgeEnds(i)) /\ WF_nodeVars(InvokeTimesOut(i))

-----------------------------------------------------------------------------
(* What should hold.                                                       *)

\* The registry follows the node.  A node that is connected is found by its id, unless
\* an older connection's close or late handshake displaced its session; and a session
\* whose socket's close has been handled is not in the registry, unless its handshake
\* ended after that.
LiveNodeIsListed == \A c \in Conns : Usable(c) => byId = c \/ c \in displaced
ListedNodeHasSocket == byId # 0 => link[byId] # "closed" \/ byId \in lateConns
RegistryFollowsNode == LiveNodeIsListed /\ ListedNodeHasSocket

\* An outstanding invoke can be ended by a disconnect: the connection its request was
\* sent on is still one whose close the registry acts on.
OutstandingInvokeHasConnection == \A i \in Invokes : step[i] = "pending" => sentOn[i] \in byConn

\* What a caller that was told "queued" can count on.  An action of its key is in the
\* queue or was run by the app, or was dropped for age, number or policy.  Pulls do not
\* remove, so an action could be run twice: only one whose acknowledgement failed is.
\* And an action is queued and run for nobody else: not for an invoke that timed out or
\* was cut off, and whose refusal came in afterwards.
QueuedIsKept ==
  \A i \in Invokes : step[i] \in {"queueing", "queued"} =>
    \E j \in Invokes :
      /\ key[j] = key[i]
      /\ j \in Entries(queue) \/ ran[j] > 0 \/ j \in dropped
QueuedRunsOnce == \A i \in Invokes : ran[i] > 1 => i \in ackFailed
OnlyQueuedRuns ==
  \A i \in Invokes : i \in Entries(queue) \union Entries(todo) \/ ran[i] > 0
    => step[i] \in {"queueing", "queued"}
QueuedMeansRunOnce == QueuedIsKept /\ QueuedRunsOnce /\ OnlyQueuedRuns

\* Every invoke is answered, whatever the node does.
EveryInvokeIsAnswered == \A i \in Invokes : step[i] # "new" ~> step[i] \in Answers
=============================================================================
